---------------------------- MODULE Spec2Model ----------------------------
(***************************************************************************)
(* The call/create frame manager of the EVM (src/src/evm.rs), the CALL*,   *)
(* CREATE*, SSTORE, LOG* and SELFDESTRUCT instructions                     *)
(* (src/crates/revm/src/instructions/system.rs) and the journal            *)
(* ("subroutine") and gas meter they drive.                                *)
(*                                                                         *)
(* Bytecode is abstracted: a running frame whose code is not empty may     *)
(* execute any of the modelled instructions with any operands, so a        *)
(* property checked here holds for every program.                          *)
(***************************************************************************)
EXTENDS Integers, Sequences, FiniteSets, TLC

(***************************************************************************)
(* Bounds of the model.                                                    *)
(***************************************************************************)
\* SPEC::CALL_STACK_LIMIT is 1024 in the program; the model scales it down
\* so that the limit is reached within the explored runs.
CALL_STACK_LIMIT == 1
\* Number of instructions executed in one transaction (all frames together).
MaxOps == 3
\* Where the intrinsic gas is computed byte by byte: the longest input, the
\* longest access list and the most storage keys of one of its entries.
MaxInputLen == 3
MaxAccessList == 2
MaxKeys == 2
\* u64::MAX, scaled down to 30 bits: TLC's integers are 32 bits wide.  No
\* amount of gas in the model comes near it.
U64_MAX == 1073741823

(***************************************************************************)
(* Program constants.                                                      *)
(***************************************************************************)
GAS_TRANSACTION_CALL == 21000
GAS_TRANSACTION_CREATE == 53000
GAS_TRANSACTION_ZERO_DATA == 4
GAS_TRANSACTION_NON_ZERO_DATA == 16
GAS_ACCESS_LIST_ADDRESS == 2400
GAS_ACCESS_LIST_STORAGE_KEY == 1900
CALL_STIPEND == 2300
CODEDEPOSIT == 200

None == "none"

\* Hardforks. SPEC::enabled(id) is "the spec is id or later".
SpecIds == {"BERLIN", "LONDON"}
ForkOrder == <<"FRONTIER", "HOMESTEAD", "TANGERINE", "SPURIOUS_DRAGON",
               "BYZANTINE", "CONSTANTINOPLE", "ISTANBUL", "BERLIN", "LONDON">>
ForkIndex(id) == CHOOSE i \in 1..Len(ForkOrder) : ForkOrder[i] = id
enabled(s, id) == ForkIndex(s) >= ForkIndex(id)

Min(a, b) == IF a < b THEN a ELSE b


(***************************************************************************)
(* Addresses, byte strings and the database the transaction starts from.   *)
(***************************************************************************)
\* A: the sender (an externally owned account), B: a contract with code and
\* one storage slot, N: the address CREATE/CREATE2 derive, P: a precompile,
\* CB: the block's coinbase.
Addr == {"A", "B", "N", "P", "CB"}
PrecompileAddresses == {"P"}
Coinbase == "CB"
ZeroWord == "0x0"
OneWord == "0x1"

\* A byte string (call data, return data, code) is represented by what the
\* modelled code reads of it: its length, its number of zero bytes, and its
\* first byte (0 when empty), which also tells the strings used here apart.
Bytes(len, zeros, first) == [len |-> len, zeros |-> zeros, first |-> first]
EmptyBytes == Bytes(0, 0, 0)
ContractCode == Bytes(1, 0, 1)

SenderBalance == 1000000

\* Keccak256::digest: the digest stands for the bytes it was taken of;
\* different bytes have different digests.
keccak256(bytes) == <<"keccak256", bytes>>

\* An account as the database hands it out: its code hash is the digest of
\* its code.
Account(bal, n, c, v) ==
    [balance |-> bal, nonce |-> n, code |-> c, code_hash |-> keccak256(c),
     slot |-> v, slot_warm |-> FALSE,
     destroyed |-> FALSE, warm |-> FALSE, touched |-> FALSE]

\* Database: what basic(address) / storage(address, key) return.
DB ==
    [a \in Addr |->
        CASE a = "A" -> Account(SenderBalance, 0, EmptyBytes, 0)
          [] a = "B" -> Account(1, 1, ContractCode, 1)
          [] OTHER   -> Account(0, 0, EmptyBytes, 0)]

\* AccountInfo::is_empty: no balance, no nonce, no code.
is_empty(acc) == acc.balance = 0 /\ acc.nonce = 0 /\ acc.code = EmptyBytes

\* util::create_address / util::create2_address: the model has one address
\* to derive, whatever the creator, nonce and salt.
create_address(caller, nonce) == "N"
create2_address(caller, code, salt) == "N"

(***************************************************************************)
(* Exit reasons and their classes (ExitSucceed / ExitRevert / ExitError).  *)
(***************************************************************************)
Succeeds == {"Stop", "Returned", "SelfDestruct"}
Reverts == {"Revert", "CallTooDeep", "OutOfFund"}
Errors == {"OutOfGas", "InvalidOpcode", "NotActivated", "CreateCollision",
           "CreateContractLimit", "StateChangeDuringStaticCall",
           "CallNotAllowedInsideStatic", "PrecompileError"}
ExitClass(reason) ==
    IF reason \in Succeeds THEN "Success"
    ELSE IF reason \in Reverts THEN "Revert" ELSE "Halt"

(***************************************************************************)
(* Gas meter.                                                              *)
(***************************************************************************)
Gas_new(limit) == [limit |-> limit, all_used |-> 0, refunded |-> 0]
remaining(g) == g.limit - g.all_used
\* record_cost: false (and the meter unchanged) if the cost exceeds what is left.
can_record_cost(g, cost) == cost <= remaining(g)
record_cost(g, cost) == [g EXCEPT !.all_used = @ + cost]
record_refund(g, r) == [g EXCEPT !.refunded = @ + r]
erase_cost(g, returned) == [g EXCEPT !.all_used = @ - returned]

\* Gas::reimburse_unspend: what a parent gets back from a finished child.
reimburse_unspend(g, reason, other) ==
    CASE ExitClass(reason) = "Success" ->
            record_refund(erase_cost(g, remaining(other)), other.refunded)
      [] ExitClass(reason) = "Revert" -> erase_cost(g, remaining(other))
      [] OTHER -> g

(***************************************************************************)
(* Journal ("subroutine"): accounts, logs and a stack of change lists, one *)
(* per open checkpoint.  sr = [state, logs, journal].                      *)
(***************************************************************************)
SubRoutine_new == [state |-> DB, logs |-> << >>, journal |-> << >>]

depth(sr) == Len(sr.journal)

\* An entry keeps the account as it was before the write; undoing restores
\* the written field.
Record(journal, e) ==
    IF journal = << >> THEN journal
    ELSE [journal EXCEPT ![Len(journal)] = Append(@, e)]

Write(sr, a, f, v) ==
    IF sr.state[a][f] = v THEN sr
    ELSE [sr EXCEPT !.state[a][f] = v,
                    !.journal = Record(@, [a |-> a, f |-> f, prev |-> sr.state[a]])]

UndoEntry(state, e) == [state EXCEPT ![e.a][e.f] = e.prev[e.f]]

RECURSIVE UndoList(_, _)
UndoList(state, list) ==
    IF list = << >> THEN state
    ELSE UndoList(UndoEntry(state, list[Len(list)]), SubSeq(list, 1, Len(list) - 1))

RECURSIVE journal_revert(_, _, _)
journal_revert(state, journal, downto) ==
    IF Len(journal) <= downto THEN state
    ELSE journal_revert(UndoList(state, journal[Len(journal)]),
                        SubSeq(journal, 1, Len(journal) - 1), downto)

create_checkpoint(sr) == [sr EXCEPT !.journal = Append(@, << >>)]
checkpoint_of(sr) == [journal_i |-> Len(sr.journal), log_i |-> Len(sr.logs)]

\* Commit: the child's change list is spliced onto its parent's.
checkpoint_commit(sr) ==
    LET n == Len(sr.journal) IN
    IF n = 0 THEN sr
    ELSE IF n = 1 THEN [sr EXCEPT !.journal = << >>]
    ELSE [sr EXCEPT !.journal =
              Append(SubSeq(@, 1, n - 2), sr.journal[n - 1] \o sr.journal[n])]

\* Revert: entries are undone in reverse, logs cut back.
checkpoint_revert(sr, cp) ==
    [state |-> journal_revert(sr.state, sr.journal, cp.journal_i),
     logs |-> SubSeq(sr.logs, 1, Min(cp.log_i, Len(sr.logs))),
     journal |-> SubSeq(sr.journal, 1, Min(cp.journal_i, Len(sr.journal)))]

is_cold(sr, a) == ~sr.state[a].warm
load_account(sr, a) == Write(sr, a, "warm", TRUE)
load_code(sr, a) == load_account(sr, a)
exists(sr, a) == ~is_empty(sr.state[a])
touch(sr, a) == Write(sr, a, "touched", TRUE)

inc_nonce(sr, a) == touch(Write(load_account(sr, a), a, "nonce", sr.state[a].nonce + 1), a)

\* transfer: both accounts are loaded; the debit and the credit happen
\* together or not at all.
transfer_ok(sr, from, value) == sr.state[from].balance >= value
transfer(sr, from, to, value) ==
    LET s0 == load_account(load_account(sr, from), to)
        s1 == Write(s0, from, "balance", s0.state[from].balance - value)
        s2 == Write(s1, to, "balance", s1.state[to].balance + value)
    IN IF transfer_ok(sr, from, value) THEN touch(touch(s2, from), to) ELSE s0

\* set_code: the code and the code hash handed in are assigned as given.
set_code(sr, a, code, code_hash) ==
    touch(Write(Write(sr, a, "code", code), a, "code_hash", code_hash), a)

\* new_contract_acc: false on a collision; otherwise the account starts as
\* a fresh contract.
new_contract_acc_ok(sr, a) ==
    /\ sr.state[a].code = EmptyBytes
    /\ sr.state[a].nonce = 0
    /\ a \notin PrecompileAddresses
new_contract_acc(sr, a) ==
    IF new_contract_acc_ok(sr, a)
    THEN touch(Write(Write(sr, a, "slot", 0), a, "slot_warm", TRUE), a)
    ELSE sr

journal_log(sr, l) == [sr EXCEPT !.logs = Append(@, l)]
\* Handler::log: the Log put together and handed to the journal.
Log(address, topics, data) == [address |-> address, topics |-> topics, data |-> data]

\* sstore: (original, old, new, is_cold) and the slot written.
original_value(a) == DB[a].slot
sstore(sr, a, new) == Write(Write(sr, a, "slot", new), a, "slot_warm", TRUE)

\* selfdestruct: the balance moves to the target and the account is marked.
selfdestruct_result(sr, a, target) ==
    [had_value |-> sr.state[a].balance # 0,
     exists |-> exists(sr, target),
     is_cold |-> is_cold(sr, target),
     previously_destroyed |-> sr.state[a].destroyed]
selfdestruct(sr, a, target) ==
    LET s0 == load_account(sr, target)
        bal == s0.state[a].balance
        s1 == Write(s0, a, "balance", 0)
        s2 == IF a = target THEN s1
              ELSE touch(Write(s1, target, "balance", s1.state[target].balance + bal),
                         target)
    IN touch(Write(s2, a, "destroyed", TRUE), a)

\* What a caller can observe of the journal: balances, nonces, code,
\* storage, self-destruct marks and logs.
Observable(sr) ==
    [accounts |-> [a \in Addr |->
        [balance |-> sr.state[a].balance, nonce |-> sr.state[a].nonce,
         code |-> sr.state[a].code, slot |-> sr.state[a].slot,
         destroyed |-> sr.state[a].destroyed]],
     logs |-> sr.logs]


(***************************************************************************)
(* Gas functions of the instructions (module gas).                         *)
(***************************************************************************)
\* EIP-2200 / EIP-2929 cost of SSTORE; NoCost (Option::None) when the
\* remaining gas is not above the call stipend (Istanbul and later).
NoCost == 0 - 1
sstore_cost(s, original, current, new, gas, cold) ==
    LET gas_sload == IF enabled(s, "BERLIN") THEN 100
                     ELSE IF enabled(s, "ISTANBUL") THEN 800
                     ELSE IF enabled(s, "TANGERINE") THEN 200 ELSE 50
        gas_sstore_reset == IF enabled(s, "BERLIN") THEN 5000 - 2100 ELSE 5000
        gas_cost ==
            IF enabled(s, "ISTANBUL")
            THEN IF new = current THEN gas_sload
                 ELSE IF original = current
                      THEN (IF original = 0 THEN 20000 ELSE gas_sstore_reset)
                      ELSE gas_sload
            ELSE IF current = 0 /\ new # 0 THEN 20000 ELSE gas_sstore_reset
    IN IF enabled(s, "ISTANBUL") /\ gas <= CALL_STIPEND THEN NoCost
       ELSE IF enabled(s, "BERLIN") /\ cold THEN gas_cost + 2100 ELSE gas_cost

\* EIP-2200 / EIP-3529 refund of SSTORE (a signed amount).
sstore_refund(s, original, current, new) ==
    LET clears == IF enabled(s, "LONDON") THEN 5000 - 2100 + 1900 ELSE 15000
        gas_sload == IF enabled(s, "BERLIN") THEN 100 ELSE 800
        gas_sstore_reset == IF enabled(s, "BERLIN") THEN 5000 - 2100 ELSE 5000
    IN IF enabled(s, "ISTANBUL")
       THEN IF current = new THEN 0
            ELSE IF original = current /\ new = 0 THEN clears
            ELSE (IF original # 0
                  THEN (IF current = 0 THEN 0 - clears
                        ELSE IF new = 0 THEN clears ELSE 0)
                  ELSE 0)
                 + (IF original = new
                    THEN (IF original = 0 THEN 20000 - gas_sload
                          ELSE gas_sstore_reset - gas_sload)
                    ELSE 0)
       ELSE IF current # 0 /\ new = 0 THEN 15000 ELSE 0

\* LOG0 of an empty data range.
log_cost(n, len) == 375 + 8 * len + 375 * n

\* Refund of SELFDESTRUCT before London.
SELFDESTRUCT_REFUND == 24000

selfdestruct_cost(s, res) ==
    LET should_charge_topup ==
            IF enabled(s, "SPURIOUS_DRAGON") THEN res.had_value /\ ~res.exists
            ELSE ~res.exists
        topup == IF enabled(s, "TANGERINE") /\ should_charge_topup THEN 25000 ELSE 0
        base == IF enabled(s, "TANGERINE") THEN 5000 ELSE 0
    IN base + topup + (IF enabled(s, "BERLIN") /\ res.is_cold THEN 2600 ELSE 0)

\* Access, value-transfer and new-account cost of a CALL-family instruction.
call_cost(s, value, is_new, cold, is_call_or_callcode, is_call_or_staticcall) ==
    LET access == IF enabled(s, "BERLIN") THEN (IF cold THEN 2600 ELSE 100)
                  ELSE IF enabled(s, "TANGERINE") THEN 700 ELSE 40
        xfer == IF is_call_or_callcode /\ value # 0 THEN 9000 ELSE 0
        new == IF is_call_or_staticcall
               THEN (IF enabled(s, "SPURIOUS_DRAGON")
                     THEN (IF value # 0 /\ is_new THEN 25000 ELSE 0)
                     ELSE (IF is_new THEN 25000 ELSE 0))
               ELSE 0
    IN access + xfer + new

CREATE_GAS == 32000
create2_cost(len) == CREATE_GAS + 6 * ((len + 31) \div 32)


(***************************************************************************)
(* The state.                                                              *)
(***************************************************************************)
VARIABLES
    spec,        \* SPEC: the hardfork the EVM is instantiated with
    gas_price,   \* GlobalEnv.gas_price
    subroutine,  \* EVM.subroutine: the journal
    frames,      \* the interpreter frames in flight, innermost last
    phase,       \* "idle" before the transaction, "running", "done"
    tx,          \* the arguments of EVM::call / EVM::create
    result,      \* what EVM::call / EVM::create returned
    last,        \* the step just taken, as the properties read it
    nops         \* instructions executed so far

vars == <<spec, gas_price, subroutine, frames, phase, tx, result, last, nops>>

GasPrices == {1}
\* An access list is a sequence of (address, number of storage keys).
NoAccessList == << >>
AccessListB == << <<"B", 1>> >>
\* Results a precompile may give: output, cost and logs, or an error.
PrecompileCost == 3000
PrecompileOk ==
    [ok |-> TRUE, output |-> ContractCode, cost |-> PrecompileCost,
     logs |-> <<Log("P", <<101>>, ContractCode), Log("P", <<102>>, EmptyBytes)>>]
PrecompileErr == [ok |-> FALSE, output |-> EmptyBytes, cost |-> 0, logs |-> << >>]
PrecompileResults == {PrecompileOk, PrecompileErr}
NoPrecompile == PrecompileErr

NoCheckpoint == [journal_i |-> 0, log_i |-> 0]
NoGas == Gas_new(0)

\* The step just taken.  op: the instruction or driver step; returned: a
\* call or create came back in this step ("call", "create" or None) with
\* `reason`, the meter `gas` and `output` that call_inner / create_inner
\* returned; snap: the observable journal when it took its checkpoint;
\* entry_depth: the journal depth when it was entered; obs, depth: the
\* observable journal and its depth as call_inner / create_inner left them;
\* gas_before: the caller's meter before the reimbursement; top: it was the
\* top-level one; ran: a frame ran; changed: that frame had changed the
\* observable journal when it ended; static: the frame executing the
\* instruction was static; fwd: the gas a CALL* / CREATE* instruction
\* forwarded; frame_exit, frame_gas: how the frame that ran ended, and its
\* meter then.
\* fwd: kind of instruction, scheme and value of the call, the gas requested
\* (local_gas_limit), available: the caller's remaining gas once the
\* instruction's own cost is charged, deducted: what was then taken from the
\* caller's meter, limit: the gas limit handed to host.call / host.create.
NoFwd ==
    [kind |-> None, scheme |-> None, value |-> 0, requested |-> 0,
     available |-> 0, deducted |-> 0, limit |-> 0]
\* callee: the code address of a call that came back without running a
\* frame, what the precompile there gave, and who sent which value.
\* host_loads: the account loads the Handler has served so far in the
\* transaction, in order (which function, the address, the is_cold reported,
\* whether the inspector's load_account hook was called); the driver records
\* its own, the instructions BALANCE, EXTCODESIZE and EXTCODEHASH add theirs.
\* sload: the account whose slot SLOAD just read, and the is_cold reported.
NoSload == [address |-> None, is_cold |-> FALSE]
\* ctx: the scheme, the target and the value operand of the CALL* instruction
\* that just entered a child frame.
NoContext == [scheme |-> None, to |-> None, value |-> 0]
\* sd: the account SELFDESTRUCT was just executed for, what the host
\* reported of it, the refund the instruction recorded, and whether the
\* frame's gas covered the instruction's cost.
NoSelfdestruct ==
    [address |-> None, previously_destroyed |-> FALSE, refund |-> 0, can_pay |-> FALSE]
NoCallee == [address |-> None, pr |-> NoPrecompile, source |-> None, value |-> 0]
NoEvent ==
    [op |-> None, returned |-> None, reason |-> None, gas |-> NoGas,
     output |-> EmptyBytes, return_value |-> EmptyBytes,
     address |-> None, snap |-> Observable(SubRoutine_new),
     entry_depth |-> 0, obs |-> Observable(SubRoutine_new), depth |-> 0,
     gas_before |-> NoGas, top |-> FALSE, ran |-> FALSE, changed |-> FALSE,
     static |-> FALSE, fwd |-> NoFwd, frame_exit |-> None, frame_gas |-> NoGas,
     callee |-> NoCallee, emitted |-> << >>, host_loads |-> << >>,
     sload |-> NoSload, ctx |-> NoContext, sd |-> NoSelfdestruct]

Top == frames[Len(frames)]
Running == phase = "running" /\ frames # << >> /\ Top.exit = "running"

\* Machine::new: a frame ready to run.  emitted: the logs the frame has
\* emitted so far, with those of the calls and creates it made that ended in
\* the Success class, in the order of emission.
Machine_new(kind, scheme, is_static, code, address, caller, value, gas_limit, d) ==
    [kind |-> kind, scheme |-> scheme, is_static |-> is_static, code |-> code,
     address |-> address, caller |-> caller, value |-> value,
     gas |-> Gas_new(gas_limit), depth |-> d,
     return_data_buffer |-> EmptyBytes, pushed |-> None,
     exit |-> "running", return_value |-> EmptyBytes,
     checkpoint |-> NoCheckpoint, created_address |-> None,
     snap |-> Observable(SubRoutine_new), entry_depth |-> 0, emitted |-> << >>]

\* EVM::initialization: precompiles and access list are loaded; the
\* intrinsic gas is returned.
RECURSIVE access_list_slots(_)
access_list_slots(al) ==
    IF al = << >> THEN 0 ELSE al[1][2] + access_list_slots(Tail(al))

RECURSIVE load_all(_, _)
load_all(sr, as) ==
    IF as = {} THEN sr
    ELSE LET a == CHOOSE x \in as : TRUE IN load_all(load_account(sr, a), as \ {a})

load_slots(sr, al) ==
    LET withSlots == {al[i][1] : i \in {j \in 1..Len(al) : al[j][2] > 0}}
    IN [sr EXCEPT !.state = [a \in Addr |->
            IF a \in withSlots THEN [sr.state[a] EXCEPT !.slot_warm = TRUE]
            ELSE sr.state[a]]]

\* (Variant: only the precompiles are loaded.)
initialization_state_precompiles_only(sr, al) == load_all(sr, PrecompileAddresses)
initialization_state(sr, al) ==
    load_slots(load_all(load_all(sr, PrecompileAddresses),
                        {al[i][1] : i \in 1..Len(al)}), al)

initialization(input, is_create, al) ==
    LET zero_data_len == input.zeros
        non_zero_data_len == input.len - zero_data_len
        transact == IF is_create THEN GAS_TRANSACTION_CREATE ELSE GAS_TRANSACTION_CALL
    IN transact
       + zero_data_len * GAS_TRANSACTION_ZERO_DATA
       + non_zero_data_len * GAS_TRANSACTION_NON_ZERO_DATA
       + Len(al) * GAS_ACCESS_LIST_ADDRESS
       + access_list_slots(al) * GAS_ACCESS_LIST_STORAGE_KEY


(***************************************************************************)
(* EVM::call_inner and EVM::create_inner, each cut where the interpreter   *)
(* runs: the part before Machine::run, and the part after it.              *)
(***************************************************************************)
CREATE_CONTRACT_LIMIT == 24576
has_contract_limit(s) == enabled(s, "SPURIOUS_DRAGON")
CREATE_INCREASE_NONCE(s) == enabled(s, "SPURIOUS_DRAGON")

\* The depth checks of call_inner (after its checkpoint) and create_inner
\* (before its checkpoint).
call_too_deep(d) == d > CALL_STACK_LIMIT + 1
\* (Variant: create_inner compares with the bound call_inner uses.)
create_too_deep_as_call(d) == d > CALL_STACK_LIMIT + 1
create_too_deep(d) == d > CALL_STACK_LIMIT

\* What call_inner / create_inner hand back when they return without
\* running a frame (done), or the frame to run.
Returned(sr, reason, address, gas, output, snap, entry_depth) ==
    [sr |-> sr, done |-> TRUE, reason |-> reason, address |-> address,
     gas |-> gas, output |-> output, snap |-> snap, entry_depth |-> entry_depth,
     frame |-> Machine_new("none", None, FALSE, EmptyBytes, None, None, 0, 0, 0)]
ToRun(sr, frame, cp, created, snap, entry_depth) ==
    [sr |-> sr, done |-> FALSE, reason |-> None, address |-> created,
     gas |-> frame.gas, output |-> EmptyBytes, snap |-> snap,
     entry_depth |-> entry_depth,
     frame |-> [frame EXCEPT !.checkpoint = cp, !.created_address = created,
                             !.snap = snap, !.entry_depth = entry_depth]]

\* logs.into_iter().for_each(|l| self.log(..)): appended first to last.
\* (Variant: last to first.)
RECURSIVE precompile_logs_reversed(_, _)
precompile_logs_reversed(sr, logs) ==
    IF logs = << >> THEN sr
    ELSE journal_log(precompile_logs_reversed(sr, Tail(logs)), Head(logs))
RECURSIVE precompile_logs(_, _)
precompile_logs(sr, logs) ==
    IF logs = << >> THEN sr
    ELSE precompile_logs(journal_log(sr, Head(logs)), Tail(logs))

call_inner(sr, is_static, scheme, code_address, xfer, input, gas_limit, context, pr) ==
    LET gas == Gas_new(gas_limit)
        code == sr.state[code_address].code
        s1 == load_code(sr, code_address)
        checkpoint == checkpoint_of(s1)
        s2 == create_checkpoint(s1)
        s3 == load_account(s2, context.address)
        s4 == transfer(s3, xfer.source, xfer.target, xfer.value)
        snap == Observable(s1)
        d0 == depth(sr)
    IN IF call_too_deep(depth(s3))
       THEN Returned(s3, "CallTooDeep", None, gas, EmptyBytes, snap, d0)
       ELSE IF ~transfer_ok(s3, xfer.source, xfer.value)
       THEN Returned(checkpoint_revert(s4, checkpoint), "OutOfFund", None, gas,
                     EmptyBytes, snap, d0)
       ELSE IF code_address \in PrecompileAddresses
       THEN IF pr.ok
            THEN IF can_record_cost(gas, pr.cost)
                 THEN Returned(checkpoint_commit(precompile_logs(s4, pr.logs)), "Returned",
                               None, record_cost(gas, pr.cost), pr.output, snap, d0)
                 ELSE Returned(checkpoint_revert(s4, checkpoint), "OutOfGas", None,
                               gas, EmptyBytes, snap, d0)
            ELSE Returned(checkpoint_revert(s4, checkpoint), "PrecompileError", None,
                          gas, EmptyBytes, snap, d0)
       ELSE ToRun(s4,
                  Machine_new("call", scheme, is_static, code, context.address,
                              context.caller, context.apparent_value, gas_limit,
                              depth(s4)),
                  checkpoint, None, snap, d0)

\* After Machine::run: the checkpoint is committed on success and reverted
\* otherwise.  (Variant: committed whatever the exit.)
close_checkpoint_always_commit(sr, exit_reason, checkpoint) == checkpoint_commit(sr)
close_checkpoint(sr, exit_reason, checkpoint) ==
    IF ExitClass(exit_reason) = "Success" THEN checkpoint_commit(sr)
    ELSE checkpoint_revert(sr, checkpoint)

call_inner_finish(sr, f) ==
    Returned(close_checkpoint(sr, f.exit, f.checkpoint), f.exit, None, f.gas,
             f.return_value, f.snap, f.entry_depth)

\* `if !self.subroutine.new_contract_acc(..)`: the address is taken.
\* (Variant: never.)
collision_never(sr, a) == FALSE
collision(sr, a) == ~new_contract_acc_ok(sr, a)

create_inner(sr, s, caller, scheme, value, init_code, gas_limit) ==
    LET gas == Gas_new(gas_limit)
        s1 == load_account(sr, caller)
        old_nonce == s1.state[caller].nonce
        s2 == inc_nonce(s1, caller)
        created_address ==
            IF scheme = "Create" THEN create_address(caller, old_nonce)
            ELSE create2_address(caller, init_code, 0)
        s3 == load_account(s2, created_address)
        checkpoint == checkpoint_of(s3)
        s4 == create_checkpoint(s3)
        s5 == new_contract_acc(s4, created_address)
        s6 == transfer(s5, caller, created_address, value)
        s7 == IF CREATE_INCREASE_NONCE(s) THEN inc_nonce(s6, created_address) ELSE s6
        d0 == depth(sr)
    IN IF create_too_deep(depth(s1))
       THEN Returned(s1, "CallTooDeep", None, gas, EmptyBytes, Observable(s1), d0)
       ELSE IF s1.state[caller].balance < value
       THEN Returned(s1, "OutOfFund", None, gas, EmptyBytes, Observable(s1), d0)
       ELSE IF collision(s4, created_address)
       THEN Returned(checkpoint_revert(s4, checkpoint), "CreateCollision",
                     created_address, gas, EmptyBytes, Observable(s3), d0)
       ELSE IF ~transfer_ok(s5, caller, value)
       THEN Returned(checkpoint_revert(s6, checkpoint), "OutOfFund",
                     created_address, gas, EmptyBytes, Observable(s3), d0)
       ELSE ToRun(s7,
                  Machine_new("create", scheme, FALSE, init_code, created_address,
                              caller, value, gas.limit, depth(s7)),
                  checkpoint, created_address, Observable(s3), d0)

\* `code.len() > limit` where the spec has a limit.  (Variant: the limit
\* itself is refused too.)
over_contract_limit_or_at(s, code) ==
    has_contract_limit(s) /\ code.len >= CREATE_CONTRACT_LIMIT
over_contract_limit(s, code) ==
    has_contract_limit(s) /\ code.len > CREATE_CONTRACT_LIMIT

\* The gas charged for the code deployed.  (Variant: nothing.)
gas_for_code_free(code) == 0
gas_for_code(code) == code.len * CODEDEPOSIT

\* `self.subroutine.checkpoint_revert(checkpoint)` on each way out of a
\* create that failed.  (Variant: the changes are kept.)
create_failed_commits(sr, checkpoint) == checkpoint_commit(sr)
create_failed(sr, checkpoint) == checkpoint_revert(sr, checkpoint)

\* `let code_hash = H256::from_slice(Keccak256::digest(&init_code)..)`: the
\* digest create_inner takes before the init code runs, of the init code.
create_code_hash(init_code) == keccak256(init_code)

create_inner_finish(sr, s, f) ==
    LET code == f.return_value
        code_hash == create_code_hash(f.code)
        reverted == create_failed(sr, f.checkpoint)
    IN IF ExitClass(f.exit) = "Success"
       THEN IF over_contract_limit(s, code)
            THEN Returned(reverted, "CreateContractLimit", f.created_address, f.gas,
                          EmptyBytes, f.snap, f.entry_depth)
            ELSE IF ~can_record_cost(f.gas, gas_for_code(code))
            THEN Returned(reverted, "OutOfGas", f.created_address, f.gas,
                          EmptyBytes, f.snap, f.entry_depth)
            ELSE Returned(set_code(checkpoint_commit(sr), f.created_address, code, code_hash),
                          "Returned", f.created_address,
                          record_cost(f.gas, gas_for_code(code)), EmptyBytes, f.snap,
                          f.entry_depth)
       ELSE Returned(reverted, f.exit, f.created_address, f.gas, f.return_value,
                     f.snap, f.entry_depth)

(***************************************************************************)
(* The end of EVM::call and EVM::create: the gas charged and finalize.     *)
(***************************************************************************)
\* `gas.refunded() as u64`: the cast of an i64 to u64.
as_u64(x) == IF x < 0 THEN x + U64_MAX + 1 ELSE x

\* `min(gas.refunded() as u64, gas_spend / 2)`.  (Variant: half the gas
\* spent, whatever the counter.)
refund_amt_half(gas, gas_spend) == gas_spend \div 2
refund_amt(gas, gas_spend) == Min(as_u64(gas.refunded), gas_spend \div 2)

\* Variants: the intrinsic gas left out of a revert's charge; a fatal error
\* charged like a revert.
gas_spend_no_init(exit_reason, gas, gas_used_init, gas_limit) ==
    CASE ExitClass(exit_reason) = "Success" ->
            (gas.all_used + gas_used_init)
                - refund_amt(gas, gas.all_used + gas_used_init)
      [] ExitClass(exit_reason) = "Revert" -> gas.all_used
      [] OTHER -> gas_limit
gas_spend_halt_as_revert(exit_reason, gas, gas_used_init, gas_limit) ==
    CASE ExitClass(exit_reason) = "Success" ->
            (gas.all_used + gas_used_init)
                - refund_amt(gas, gas.all_used + gas_used_init)
      [] OTHER -> gas.all_used + gas_used_init

gas_spend(exit_reason, gas, gas_used_init, gas_limit) ==
    CASE ExitClass(exit_reason) = "Success" ->
            (gas.all_used + gas_used_init)
                - refund_amt(gas, gas.all_used + gas_used_init)
      [] ExitClass(exit_reason) = "Revert" -> gas.all_used + gas_used_init
      [] OTHER -> gas_limit

\* EVM::finalize: the fee goes to the coinbase (the outcome of the transfer
\* is dropped); the touched accounts are the state returned.
subroutine_finalize(sr) == {a \in Addr : sr.state[a].touched}
finalize(sr, caller, used_gas_sum, price) ==
    transfer(sr, caller, Coinbase, used_gas_sum * price)
\* `out.get_mut(&caller).unwrap()`: the caller is looked up in the state
\* the journal's finalize gave; the unwrap panics when it is not there.
finalize_finds_caller(sr, caller) == caller \in subroutine_finalize(sr)

NoResult ==
    [reason |-> None, output |-> EmptyBytes, address |-> None, gas_used |-> 0,
     state |-> {}, gas |-> NoGas, gas_used_init |-> 0, executed |-> FALSE]
\* EVM::finalize panicked: EVM::call / EVM::create return nothing.
Panicked == [NoResult EXCEPT !.reason = "panic"]

\* The tuple EVM::call / EVM::create return once call_inner / create_inner
\* gave r.
tx_result(r, gas_used_init, gas_limit, sr) ==
    [reason |-> r.reason, output |-> r.output, address |-> r.address,
     gas_used |-> gas_spend(r.reason, r.gas, gas_used_init, gas_limit),
     state |-> subroutine_finalize(sr), gas |-> r.gas,
     gas_used_init |-> gas_used_init, executed |-> TRUE]


(***************************************************************************)
(* The instructions (instructions/system.rs) as far as the frame that      *)
(* executes them is concerned.                                             *)
(***************************************************************************)
Exit(f, reason, bytes) == [f EXCEPT !.exit = reason, !.return_value = bytes]

\* gas_call_l64_after: all but one 64th of what is left (EIP-150).
\* (Variant: all of what is left.)
gas_call_all_after(s, gas) == remaining(gas)
gas_call_l64_after(s, gas) ==
    IF enabled(s, "TANGERINE") THEN remaining(gas) - (remaining(gas) \div 64)
    ELSE remaining(gas)

saturating_add(a, b) == Min(a + b, U64_MAX)

\* The spec the child of a CALL-family instruction runs under: SPEC::STATIC
\* for STATICCALL, the caller's own SPEC otherwise.  (Variant: static for
\* STATICCALL only.)
call_spec_is_static_by_scheme(scheme, parent_static) == scheme = "StaticCall"
call_spec_is_static(scheme, parent_static) ==
    IF scheme = "StaticCall" THEN TRUE ELSE parent_static

\* (Variant: DELEGATECALL builds the context of CALLCODE.)
call_context_delegate_as_callcode(f, scheme, to, value) ==
    IF scheme \in {"Call", "StaticCall"}
    THEN [address |-> to, caller |-> f.address, apparent_value |-> value]
    ELSE [address |-> f.address, caller |-> f.address, apparent_value |-> value]
call_context(f, scheme, to, value) ==
    CASE scheme \in {"Call", "StaticCall"} ->
            [address |-> to, caller |-> f.address, apparent_value |-> value]
      [] scheme = "CallCode" ->
            [address |-> f.address, caller |-> f.address, apparent_value |-> value]
      [] OTHER ->
            [address |-> f.address, caller |-> f.caller, apparent_value |-> f.value]

\* (Variant: every scheme sends the value to the target.)
call_transfer_to_target(f, scheme, to, value) ==
    [source |-> f.address, target |-> to, value |-> value]
call_transfer(f, scheme, to, value) ==
    CASE scheme = "Call" -> [source |-> f.address, target |-> to, value |-> value]
      [] scheme = "CallCode" ->
            [source |-> f.address, target |-> f.address, value |-> value]
      [] OTHER -> [source |-> f.address, target |-> f.address, value |-> 0]

\* What CALL* pushes once the child is back.
call_pushed(reason) == IF ExitClass(reason) = "Success" THEN OneWord ELSE ZeroWord

\* The rest of `call` once host.call has returned r.  (Variant: without the
\* reimbursement.)
after_call_no_reimburse(f, r) ==
    [f EXCEPT !.return_data_buffer = r.output,
              !.pushed = call_pushed(r.reason)]
after_call(f, r) ==
    [f EXCEPT !.return_data_buffer = r.output,
              !.gas = reimburse_unspend(@, r.reason, r.gas),
              !.pushed = call_pushed(r.reason)]

\* What CREATE / CREATE2 push once the child is back.  (Variant: the address
\* create_inner handed back, whatever the exit.)
create_pushed_any_address(reason, address) == IF address = None THEN ZeroWord ELSE address
create_pushed(reason, address) ==
    IF ExitClass(reason) = "Success"
    THEN (IF address = None THEN ZeroWord ELSE address)
    ELSE ZeroWord

\* The rest of `create` once host.create has returned r.
after_create(f, r) ==
    [f EXCEPT !.return_data_buffer = r.output,
              !.pushed = create_pushed(r.reason, r.address),
              !.gas = reimburse_unspend(@, r.reason, r.gas)]

(***************************************************************************)
(* Events.                                                                 *)
(***************************************************************************)
OpEvent(op, f) == [NoEvent EXCEPT !.op = op, !.static = f.is_static]

\* A call or create that came back: r is what call_inner / create_inner
\* returned, rv the bytes the child frame ended with.
ReturnEvent(op, kind, r, rv, gas_before, top, ran, changed, static) ==
    [op |-> op, returned |-> kind, reason |-> r.reason, gas |-> r.gas,
     output |-> r.output, return_value |-> rv, address |-> r.address,
     snap |-> r.snap, entry_depth |-> r.entry_depth,
     obs |-> Observable(r.sr), depth |-> depth(r.sr), gas_before |-> gas_before,
     top |-> top, ran |-> ran, changed |-> changed, static |-> static,
     fwd |-> NoFwd, frame_exit |-> None, frame_gas |-> NoGas,
     callee |-> NoCallee, emitted |-> << >>, host_loads |-> << >>,
     sload |-> NoSload, ctx |-> NoContext, sd |-> NoSelfdestruct]

\* The logs a call or create that came back with `reason` leaves behind,
\* given those emitted under it.
Emitted(reason, logs) == IF ExitClass(reason) = "Success" THEN logs ELSE << >>

\* The event of a call to code_address that came back at once.
Callee(code_address, pr, xfer) ==
    [address |-> code_address, pr |-> pr, source |-> xfer.source,
     value |-> xfer.value]
Called(ev, callee) == [ev EXCEPT !.callee = callee]

\* The event of a call or create whose frame f ran to its end.
Ended(ev, f) == [ev EXCEPT !.frame_exit = f.exit, !.frame_gas = f.gas]

\* The event of a CALL* / CREATE* instruction that forwarded gas: g1 is the
\* caller's meter after the instruction's cost, g2 after the deduction.
Forwarded(ev, kind, scheme, value, requested, g1, g2, limit) ==
    [ev EXCEPT !.fwd = [kind |-> kind, scheme |-> scheme, value |-> value,
                        requested |-> requested, available |-> remaining(g1),
                        deducted |-> g2.all_used - g1.all_used, limit |-> limit]]


(***************************************************************************)
(* Initial state: a fresh EVM (EVM::new) over the database.                *)
(***************************************************************************)
NoTx ==
    [kind |-> None, caller |-> None, address |-> None, value |-> 0,
     data |-> EmptyBytes, gas_limit |-> 0, access_list |-> << >>]

Init ==
    /\ spec \in SpecIds
    /\ gas_price \in GasPrices
    /\ subroutine = SubRoutine_new
    /\ frames = << >>
    /\ phase = "idle"
    /\ tx = NoTx
    /\ result = NoResult
    /\ last = NoEvent
    /\ nops = 0

Sender == "A"
\* The operands CREATE and CREATE2 are tried with; the empty init code runs
\* nothing and deploys nothing.
CreateInputs ==
    {[is_create2 |-> FALSE, value |-> 1, code |-> ContractCode],
     [is_create2 |-> TRUE, value |-> 0, code |-> EmptyBytes]}
PrecompileChoices(a) == IF a \in PrecompileAddresses THEN PrecompileResults ELSE {NoPrecompile}

\* The transactions tried.  Gas limits: ample (200000; 5200000 for a create,
\* which pays for code of the largest size), little left after
\* the intrinsic gas (30000), below the intrinsic gas (20000 for a call,
\* 30000 for a create).  Values: 1, more than the sender owns, and all but
\* 1000 of what the sender owns (less is left than the gas will cost).
TxIn(address, value, data, gas_limit, al, static) ==
    [address |-> address, value |-> value, data |-> data, gas_limit |-> gas_limit,
     access_list |-> al, static |-> static]
TxCalls ==
    {TxIn("B", 1, EmptyBytes, 200000, NoAccessList, FALSE),
     TxIn("B", 0, Bytes(2, 1, 239), 30000, AccessListB, FALSE),
     TxIn("B", 0, EmptyBytes, 200000, NoAccessList, TRUE),
     TxIn("P", 1, EmptyBytes, 200000, NoAccessList, FALSE),
     TxIn("P", SenderBalance - 1000, EmptyBytes, 200000, NoAccessList, FALSE),
     TxIn("B", 0, EmptyBytes, 20000, NoAccessList, FALSE),
     TxIn("B", SenderBalance + 1, EmptyBytes, 200000, NoAccessList, FALSE)}
TxCreates ==
    {TxIn(None, 1, ContractCode, 5200000, NoAccessList, FALSE),
     TxIn(None, 0, ContractCode, 30000, NoAccessList, FALSE),
     TxIn(None, SenderBalance + 1, ContractCode, 200000, NoAccessList, FALSE)}

\* The operands CALL* are tried with: scheme, target, value, gas requested,
\* and what the precompile does when the target is one.
CallIn(scheme, to, value, gas, pr) ==
    [scheme |-> scheme, to |-> to, value |-> value, gas |-> gas, pr |-> pr]
CallInputs ==
    {CallIn("Call", "B", 1, U64_MAX, NoPrecompile),
     CallIn("Call", "P", 1, U64_MAX, PrecompileOk),
     CallIn("Call", "P", 1, U64_MAX, PrecompileErr),
     CallIn("Call", "P", 1, 0, PrecompileOk),
     CallIn("CallCode", "B", 1, U64_MAX, NoPrecompile),
     CallIn("DelegateCall", "B", 0, U64_MAX, NoPrecompile),
     CallIn("StaticCall", "B", 0, U64_MAX, NoPrecompile)}

(***************************************************************************)
(* The driver: EVM::call and EVM::create up to the interpreter's run, or   *)
(* to their return when no frame runs.                                     *)
(***************************************************************************)
\* The transaction is over: r is what call_inner / create_inner returned, f
\* the frame that ran, if one did, callee what was called if none did.
TxDone(r, f, kind, op, ran, changed, callee) ==
    LET gas_used_init == initialization(tx'.data, tx'.kind = "create", tx'.access_list)
        used == gas_spend(r.reason, r.gas, gas_used_init, tx'.gas_limit)
        s == finalize(r.sr, tx'.caller, used, gas_price)
    IN /\ subroutine' = s
       /\ result' = IF finalize_finds_caller(s, tx'.caller)
                    THEN tx_result(r, gas_used_init, tx'.gas_limit, s)
                    ELSE Panicked
       /\ frames' = << >>
       /\ phase' = "done"
       /\ last' = IF ran
                  THEN [Ended(ReturnEvent(op, kind, r, f.return_value, NoGas, TRUE,
                                          ran, changed, FALSE), f)
                           EXCEPT !.emitted = Emitted(r.reason, f.emitted)]
                  ELSE [Called(ReturnEvent(op, kind, r, EmptyBytes, NoGas, TRUE,
                                           ran, changed, FALSE), callee)
                           EXCEPT !.emitted = Emitted(r.reason, callee.pr.logs)]

\* The gas limit is below the intrinsic gas: EVM::call / EVM::create return
\* at once.  (Variant: the sender's nonce is incremented first.)
TxRejectedAfterNonce(s0) ==
    /\ subroutine' = inc_nonce(load_account(s0, Sender), Sender)
    /\ result' = [NoResult EXCEPT !.reason = "OutOfGas"]
    /\ frames' = << >>
    /\ phase' = "done"
    /\ last' = [NoEvent EXCEPT !.op = "tx_rejected"]
TxRejected(s0) ==
    /\ subroutine' = s0
    /\ result' = [NoResult EXCEPT !.reason = "OutOfGas"]
    /\ frames' = << >>
    /\ phase' = "done"
    /\ last' = [NoEvent EXCEPT !.op = "tx_rejected"]

\* `if is_cold { self.inspector.load_account(&address) }`.
\* (Variant: the hook is called for every load.)
inspector_hook_always(cold) == TRUE
inspector_hook(cold) == cold

HostLoad(via, sr, a) ==
    [via |-> via, address |-> a, is_cold |-> is_cold(sr, a),
     hook |-> inspector_hook(is_cold(sr, a))]
\* Handler::load_account, balance (through inner_load_account), code and
\* code_hash: the journal after the load, and what the load reported.
Handler_load_account(sr, a) ==
    [sr |-> load_account(sr, a), load |-> HostLoad("load_account", sr, a)]
Handler_balance(sr, a) ==
    [sr |-> load_account(sr, a), load |-> HostLoad("balance", sr, a)]
Handler_code(sr, a) ==
    [sr |-> load_code(sr, a), load |-> HostLoad("code", sr, a)]
Handler_code_hash(sr, a) ==
    [sr |-> load_code(sr, a), load |-> HostLoad("code_hash", sr, a)]

\* The Handler's loads on the way into the top-level frame.  EVM::call loads
\* the caller; call_inner reads the code at the code address and, inside
\* the checkpoint, loads the context's address.
EVM_call_loads(s0, caller, address) ==
    LET l1 == Handler_load_account(s0, caller)
        l2 == Handler_code(inc_nonce(l1.sr, caller), address)
        l3 == Handler_load_account(create_checkpoint(l2.sr), address)
    IN <<l1.load, l2.load, l3.load>>
\* create_inner loads the caller, reads its balance, and loads the derived
\* address.
create_inner_loads(s0, caller) ==
    LET l1 == Handler_load_account(s0, caller)
        l2 == Handler_balance(l1.sr, caller)
        l3 == Handler_load_account(inc_nonce(l2.sr, caller),
                                   create_address(caller, l2.sr.state[caller].nonce))
    IN <<l1.load, l2.load, l3.load>>

TxStarted(r, op, loads) ==
    /\ subroutine' = r.sr
    /\ frames' = <<r.frame>>
    /\ phase' = "running"
    /\ last' = [NoEvent EXCEPT !.op = op, !.host_loads = loads]
    /\ UNCHANGED result

EVM_call(is_static, address, value, data, gas_limit, access_list, pr) ==
    /\ phase = "idle"
    /\ tx' = [kind |-> "call", caller |-> Sender, address |-> address,
              value |-> value, data |-> data, gas_limit |-> gas_limit,
              access_list |-> access_list]
    /\ UNCHANGED <<spec, gas_price, nops>>
    /\ LET gas_used_init == initialization(data, FALSE, access_list)
           s0 == initialization_state(subroutine, access_list)
           s1 == inc_nonce(load_account(s0, Sender), Sender)
           context == [caller |-> Sender, address |-> address,
                       apparent_value |-> value]
           r == call_inner(s1, is_static, "Tx", address,
                           [source |-> Sender, target |-> address, value |-> value],
                           data, gas_limit - gas_used_init, context, pr)
       IN IF gas_limit < gas_used_init THEN TxRejected(s0)
          ELSE IF r.done
          THEN TxDone(r, r.frame, "call", "tx_call", FALSE, FALSE,
                      Callee(address, pr,
                             [source |-> Sender, target |-> address, value |-> value]))
          ELSE TxStarted(r, "tx_call", EVM_call_loads(s0, Sender, address))

EVM_create(value, init_code, scheme, gas_limit, access_list) ==
    /\ phase = "idle"
    /\ tx' = [kind |-> "create", caller |-> Sender, address |-> None,
              value |-> value, data |-> init_code, gas_limit |-> gas_limit,
              access_list |-> access_list]
    /\ UNCHANGED <<spec, gas_price, nops>>
    /\ LET gas_used_init == initialization(init_code, TRUE, access_list)
           s0 == initialization_state(subroutine, access_list)
           r == create_inner(s0, spec, Sender, scheme, value, init_code,
                             gas_limit - gas_used_init)
       IN IF gas_limit < gas_used_init THEN TxRejected(s0)
          ELSE IF r.done
          THEN TxDone(r, r.frame, "create", "tx_create", FALSE, FALSE, NoCallee)
          ELSE TxStarted(r, "tx_create", create_inner_loads(s0, Sender))

\* Frame f, the innermost, has ended: the rest of call_inner / create_inner,
\* then of EVM::call / EVM::create for the top-level frame, of the caller's
\* CALL* / CREATE* instruction for a nested one.
Return(f) ==
    LET r == IF f.kind = "call" THEN call_inner_finish(subroutine, f)
             ELSE create_inner_finish(subroutine, spec, f)
        parent == frames[Len(frames) - 1]
        parent1 == IF f.kind = "call" THEN after_call(parent, r)
                   ELSE after_create(parent, r)
        parent2 == [parent1 EXCEPT !.emitted = @ \o Emitted(r.reason, f.emitted)]
        changed == Observable(subroutine) # f.snap
    IN IF Len(frames) = 1
       THEN /\ UNCHANGED <<spec, gas_price, tx, nops>>
            /\ TxDone(r, f, f.kind, "tx_return", TRUE, changed, NoCallee)
       ELSE /\ subroutine' = r.sr
            /\ frames' = Append(SubSeq(frames, 1, Len(frames) - 2), parent2)
            /\ last' = Ended(ReturnEvent("child_return", f.kind, r, f.return_value,
                                         parent.gas, FALSE, TRUE, changed,
                                         parent.is_static), f)
            /\ UNCHANGED <<spec, gas_price, tx, nops, phase, result>>

\* An instruction failed, or was SELFDESTRUCT, in the top-level frame.
TxReturn ==
    /\ phase = "running"
    /\ Len(frames) = 1
    /\ Top.exit # "running"
    /\ Return(Top)

\* The same in a nested frame.
ChildReturn ==
    /\ phase = "running"
    /\ Len(frames) >= 2
    /\ Top.exit # "running"
    /\ Return(Top)


(***************************************************************************)
(* The interpreter's steps: one instruction of the innermost frame.        *)
(***************************************************************************)
\* An instruction can be fetched: the frame runs code, and the model's
\* bound on executed instructions is not used up.
CanStep == Running /\ Top.code.len > 0 /\ nops < MaxOps

\* The instruction left the frame as f2 and the journal as sr.
Step(f2, sr, ev) ==
    /\ frames' = [frames EXCEPT ![Len(frames)] = f2]
    /\ subroutine' = sr
    /\ last' = ev
    /\ nops' = nops + 1
    /\ UNCHANGED <<spec, gas_price, phase, tx, result>>

\* The instruction entered a child frame.
Enter(f2, r, ev) ==
    /\ frames' = Append([frames EXCEPT ![Len(frames)] = f2], r.frame)
    /\ subroutine' = r.sr
    /\ last' = ev
    /\ nops' = nops + 1
    /\ UNCHANGED <<spec, gas_price, phase, tx, result>>

\* The frame ends of its own accord and control is back in its caller.
End(reason, bytes) == Return(Exit(Top, reason, bytes))

\* The static check that opens SSTORE, LOG*, SELFDESTRUCT and CREATE*.
\* (Variant: no check.)
static_check_never_fails(f) == FALSE
static_check_fails(f) == f.is_static

sstore_op(value) ==
    /\ CanStep
    /\ LET f == Top
           a == f.address
           original == original_value(a)
           old == subroutine.state[a].slot
           cold == ~subroutine.state[a].slot_warm
           s1 == sstore(subroutine, a, value)
           cost == sstore_cost(spec, original, old, value, remaining(f.gas), cold)
           refund == sstore_refund(spec, original, old, value)
       IN IF static_check_fails(f)
          THEN Step(Exit(f, "StateChangeDuringStaticCall", EmptyBytes), subroutine,
                    OpEvent("sstore", f))
          ELSE IF cost = NoCost \/ ~can_record_cost(f.gas, cost)
          THEN Step(Exit(f, "OutOfGas", EmptyBytes), s1, OpEvent("sstore", f))
          ELSE Step([f EXCEPT !.gas = record_refund(record_cost(@, cost), refund)],
                    s1, OpEvent("sstore", f))

log_op(n, topics) ==
    /\ CanStep
    /\ LET f == Top
           cost == log_cost(n, 0)
           log == Log(f.address, topics, EmptyBytes)
       IN IF static_check_fails(f)
          THEN Step(Exit(f, "StateChangeDuringStaticCall", EmptyBytes), subroutine,
                    OpEvent("log", f))
          ELSE IF ~can_record_cost(f.gas, cost)
          THEN Step(Exit(f, "OutOfGas", EmptyBytes), subroutine, OpEvent("log", f))
          ELSE Step([f EXCEPT !.gas = record_cost(@, cost),
                              !.emitted = Append(@, log)],
                    journal_log(subroutine, log),
                    OpEvent("log", f))

\* `if !SPEC::enabled(LONDON) && !res.previously_destroyed { refund!(..) }`:
\* the refund SELFDESTRUCT records.  (Variant: whatever the host reports.)
selfdestruct_refund_every_time(s, res) ==
    IF ~enabled(s, "LONDON") THEN SELFDESTRUCT_REFUND ELSE 0
selfdestruct_refund(s, res) ==
    IF ~enabled(s, "LONDON") /\ ~res.previously_destroyed
    THEN SELFDESTRUCT_REFUND ELSE 0

\* The event of a SELFDESTRUCT of `address`.
Selfdestructed(ev, address, res, refund, can_pay) ==
    [ev EXCEPT !.sd = [address |-> address,
                       previously_destroyed |-> res.previously_destroyed,
                       refund |-> refund, can_pay |-> can_pay]]

selfdestruct_op(target) ==
    /\ CanStep
    /\ LET f == Top
           res == selfdestruct_result(subroutine, f.address, target)
           s1 == selfdestruct(subroutine, f.address, target)
           refund == selfdestruct_refund(spec, res)
           g1 == record_refund(f.gas, refund)
           cost == selfdestruct_cost(spec, res)
           can_pay == can_record_cost(g1, cost)
       IN IF static_check_fails(f)
          THEN Step(Exit(f, "StateChangeDuringStaticCall", EmptyBytes), subroutine,
                    Selfdestructed(OpEvent("selfdestruct", f), f.address, res, 0,
                                   can_pay))
          ELSE IF ~can_pay
          THEN Step(Exit([f EXCEPT !.gas = g1], "OutOfGas", EmptyBytes), s1,
                    Selfdestructed(OpEvent("selfdestruct", f), f.address, res,
                                   refund, can_pay))
          ELSE Step(Exit([f EXCEPT !.gas = record_cost(g1, cost)], "SelfDestruct",
                         EmptyBytes),
                    s1, Selfdestructed(OpEvent("selfdestruct", f), f.address, res,
                                       refund, can_pay))

\* The CALL* instruction entered a child frame for this scheme, target
\* and value operand.
Contexted(ev, scheme, to, value) ==
    [ev EXCEPT !.ctx = [scheme |-> scheme, to |-> to, value |-> value]]

call_op(scheme, to, value_in, local_gas_limit, pr) ==
    /\ CanStep
    /\ LET f == Top
           f0 == [f EXCEPT !.return_data_buffer = EmptyBytes]
           value == IF scheme \in {"Call", "CallCode"} THEN value_in ELSE 0
           context == call_context(f, scheme, to, value)
           xfer == call_transfer(f, scheme, to, value)
           cold == is_cold(subroutine, to)
           is_new == ~exists(subroutine, to)
           s1 == load_account(subroutine, to)
           cost == call_cost(spec, value, is_new, cold,
                             scheme \in {"Call", "CallCode"},
                             scheme \in {"Call", "StaticCall"})
           g1 == record_cost(f0.gas, cost)
           gl == Min(gas_call_l64_after(spec, g1), local_gas_limit)
           g2 == record_cost(g1, gl)
           gas_limit == IF scheme \in {"Call", "CallCode"} /\ xfer.value # 0
                        THEN saturating_add(gl, CALL_STIPEND) ELSE gl
           r == call_inner(s1, call_spec_is_static(scheme, f.is_static), scheme, to,
                           xfer, EmptyBytes, gas_limit, context, pr)
           f2 == [f0 EXCEPT !.gas = g2]
           op == IF scheme = "Call" /\ value # 0 THEN "call_value" ELSE "call"
       IN IF \/ scheme = "DelegateCall" /\ ~enabled(spec, "HOMESTEAD")
             \/ scheme = "StaticCall" /\ ~enabled(spec, "BYZANTINE")
          THEN Step(Exit(f, "NotActivated", EmptyBytes), subroutine, OpEvent(op, f))
          ELSE IF scheme = "Call" /\ f.is_static /\ value # 0
          THEN Step(Exit(f0, "CallNotAllowedInsideStatic", EmptyBytes), subroutine,
                    OpEvent(op, f))
          ELSE IF ~can_record_cost(f0.gas, cost)
          THEN Step(Exit(f0, "OutOfGas", EmptyBytes), s1, OpEvent(op, f))
          ELSE IF r.done
          THEN Step([after_call(f2, r) EXCEPT
                         !.emitted = @ \o Emitted(r.reason, pr.logs)],
                    r.sr,
                    Called(Forwarded(ReturnEvent(op, "call", r, EmptyBytes, g2,
                                                 FALSE, FALSE, FALSE, f.is_static),
                                     "call", scheme, xfer.value, local_gas_limit,
                                     g1, g2, r.gas.limit),
                           Callee(to, pr, xfer)))
          ELSE Enter(f2, r,
                     Contexted(Forwarded(OpEvent(op, f), "call", scheme, xfer.value,
                                         local_gas_limit, g1, g2, r.gas.limit),
                               scheme, to, value_in))

create_op(is_create2, value, code) ==
    /\ CanStep
    /\ LET f == Top
           f0 == [f EXCEPT !.return_data_buffer = EmptyBytes]
           cost == IF is_create2 THEN create2_cost(code.len) ELSE CREATE_GAS
           g1 == record_cost(f0.gas, cost)
           gas_limit == gas_call_l64_after(spec, g1)
           g2 == record_cost(g1, gas_limit)
           r == create_inner(subroutine, spec, f.address,
                             IF is_create2 THEN "Create2" ELSE "Create", value, code,
                             gas_limit)
           f2 == [f0 EXCEPT !.gas = g2]
           op == "create"
       IN IF static_check_fails(f)
          THEN Step(Exit(f, "StateChangeDuringStaticCall", EmptyBytes), subroutine,
                    OpEvent(op, f))
          ELSE IF is_create2 /\ ~enabled(spec, "CONSTANTINOPLE")
          THEN Step(Exit(f, "NotActivated", EmptyBytes), subroutine, OpEvent(op, f))
          ELSE IF ~can_record_cost(f0.gas, cost)
          THEN Step(Exit(f0, "OutOfGas", EmptyBytes), subroutine, OpEvent(op, f))
          ELSE IF r.done
          THEN Step(after_create(f2, r), r.sr,
                    Forwarded(ReturnEvent(op, "create", r, EmptyBytes, g2, FALSE,
                                          FALSE, FALSE, f.is_static),
                              "create", None, value, U64_MAX, g1, g2, r.gas.limit))
          ELSE Enter(f2, r, Forwarded(OpEvent(op, f), "create", None, value,
                                      U64_MAX, g1, g2, r.gas.limit))

\* STOP, or the end of the code.
stop_op == Running /\ End("Stop", EmptyBytes)

return_op(data) == Running /\ Top.code.len > 0 /\ End("Returned", data)

revert_op(data) ==
    /\ Running /\ Top.code.len > 0
    /\ IF enabled(spec, "BYZANTINE") THEN End("Revert", data)
       ELSE End("NotActivated", EmptyBytes)

\* Any other fatal end: an invalid opcode, a stack error, a bad jump.
halt_op == Running /\ Top.code.len > 0 /\ End("InvalidOpcode", EmptyBytes)

SelfdestructTargets == {"A"}
\* Two bytes starting with 0xEF; as many bytes as the code-size limit; one
\* byte more.
ReturnData ==
    {Bytes(2, 1, 239), Bytes(CREATE_CONTRACT_LIMIT, 0, 1),
     Bytes(CREATE_CONTRACT_LIMIT + 1, 0, 1)}
\* Init code returns either; what a call returns is only copied to its caller.
ReturnChoices ==
    IF Running /\ Top.kind = "call" THEN {Bytes(2, 1, 239)} ELSE ReturnData
RevertData == {Bytes(2, 1, 239)}

Next ==
    \/ \E t \in TxCalls : \E pr \in PrecompileChoices(t.address) :
          EVM_call(t.static, t.address, t.value, t.data, t.gas_limit, t.access_list, pr)
    \/ \E t \in TxCreates :
          EVM_create(t.value, t.data, "Create", t.gas_limit, t.access_list)
    \/ TxReturn
    \/ ChildReturn
    \/ \E v \in {0, 1} : sstore_op(v)
    \/ log_op(0, << >>)
    \/ \E target \in SelfdestructTargets : selfdestruct_op(target)
    \/ \E c \in CallInputs : call_op(c.scheme, c.to, c.value, c.gas, c.pr)
    \/ \E c \in CreateInputs : create_op(c.is_create2, c.value, c.code)
    \/ stop_op
    \/ \E data \in ReturnChoices : return_op(data)
    \/ \E data \in RevertData : revert_op(data)
    \/ halt_op

Spec == Init /\ [][Next]_vars

(***************************************************************************)
(* Properties.                                                             *)
(***************************************************************************)
ReturnedToFrame == last.returned # None /\ ~last.top

\* C1. Revert atomicity for calls: whenever call_inner returns with an exit
\* reason outside the Success class, at the top level or nested, from a
\* frame or from a precompile, the observable journal it leaves (balances,
\* nonces, code, storage, self-destruct marks, logs) is the one it had when
\* the call's checkpoint was created.
RevertAtomicity ==
    (last.returned = "call" /\ ExitClass(last.reason) # "Success")
        => last.obs = last.snap

\* A nested call frame changed the observable journal and ended in REVERT.
RevertAtomicityWitness ==
    /\ last.returned = "call" /\ last.reason = "Revert"
    /\ last.ran /\ last.changed /\ ~last.top

\* C2. Checkpoint pairing: the journal depth when a call or create returns
\* is the depth when it was entered, and the journal depth is always the
\* number of frames still active.
CheckpointPairing ==
    /\ last.returned # None => last.depth = last.entry_depth
    /\ depth(subroutine) = Len(frames)

\* C3. Call depth never exceeds the limit: the journal depth and the depth
\* handed to every frame are at most CALL_STACK_LIMIT.
CallDepthLimit ==
    /\ depth(subroutine) <= CALL_STACK_LIMIT
    /\ \A i \in 1..Len(frames) : frames[i].depth <= CALL_STACK_LIMIT

\* The gas a finished transaction left unspent in its meter, plus the refund
\* applied when it succeeded; nothing after a fatal error.
gas_consumed == result.gas.all_used + result.gas_used_init
gas_returned ==
    CASE ExitClass(result.reason) = "Success" ->
            remaining(result.gas) + refund_amt(result.gas, gas_consumed)
      [] ExitClass(result.reason) = "Revert" -> remaining(result.gas)
      [] OTHER -> 0

\* C4. Gas conservation: a transaction that passed the intrinsic-gas check
\* reports 0 < gas_used <= tx.gas_limit, and tx.gas_limit is gas_used plus
\* the gas returned to the sender.
GasConservation ==
    result.executed =>
        /\ 0 < result.gas_used
        /\ result.gas_used <= tx.gas_limit
        /\ tx.gas_limit = result.gas_used + gas_returned

\* A successful transaction with gas left and a refund applied.
GasConservationWitness ==
    /\ result.executed /\ ExitClass(result.reason) = "Success"
    /\ remaining(result.gas) > 0
    /\ result.gas_used < gas_consumed

\* A reverted transaction with gas left.
GasConservationRevertWitness ==
    /\ result.executed /\ result.reason = "Revert"
    /\ remaining(result.gas) > 0

\* C5. Top-level charging by outcome class: a fatal error is charged the
\* whole gas limit, a revert the gas consumed plus the intrinsic gas, and
\* only a success is charged less than it consumed.
ChargingByOutcome ==
    result.executed =>
        /\ ExitClass(result.reason) = "Halt" => result.gas_used = tx.gas_limit
        /\ ExitClass(result.reason) = "Revert" => result.gas_used = gas_consumed
        /\ ExitClass(result.reason) = "Success" => result.gas_used <= gas_consumed
        /\ result.gas_used < gas_consumed => ExitClass(result.reason) = "Success"

\* A transaction ended by a fatal error with gas left in its meter.
ChargingByOutcomeWitness ==
    /\ result.executed /\ ExitClass(result.reason) = "Halt"
    /\ remaining(result.gas) > 0 /\ last.ran

\* C6. Refund cap: the refund applied to a successful transaction is at
\* most a fifth of the gas consumed from London on, at most half of it
\* before.
RefundCap ==
    (result.executed /\ ExitClass(result.reason) = "Success") =>
        gas_consumed - result.gas_used
            <= gas_consumed \div (IF enabled(spec, "LONDON") THEN 5 ELSE 2)

\* C7. Static frames cannot mutate state: SSTORE, LOG, SELFDESTRUCT, CREATE,
\* CREATE2 and CALL with a value, executed by a static frame, end the frame
\* with an error and leave the journal as it was.
StaticOps == {"sstore", "log", "selfdestruct", "create", "call_value"}
StaticFramesCannotMutate ==
    [][(last'.op \in StaticOps /\ last'.static) =>
          /\ subroutine' = subroutine
          /\ Len(frames') = Len(frames)
          /\ frames'[Len(frames')].exit \in Errors]_vars

\* A static frame met SSTORE.
StaticFramesCannotMutateWitness ==
    /\ last.op = "sstore" /\ last.static
    /\ Top.exit = "StateChangeDuringStaticCall"

\* A static frame met CALL with a value.
StaticCallValueWitness ==
    /\ last.op = "call_value" /\ last.static
    /\ Top.exit = "CallNotAllowedInsideStatic"

\* C8. Static-call propagation: a frame entered through STATICCALL is
\* static, and so is every frame called from a static frame.
StaticPropagation ==
    \A i \in 1..Len(frames) :
        /\ frames[i].scheme = "StaticCall" => frames[i].is_static
        /\ (i > 1 /\ frames[i].kind = "call" /\ frames[i - 1].is_static)
              => frames[i].is_static

\* A frame entered through CALL, CALLCODE or DELEGATECALL runs below a
\* static frame.
StaticPropagationWitness ==
    /\ Len(frames) >= 2
    /\ frames[Len(frames) - 1].is_static
    /\ Top.scheme \in {"Call", "CallCode", "DelegateCall"}
    /\ Top.is_static

\* C9. Reimbursement after a child: after a Success or a Revert the caller's
\* meter has exactly the child's remaining gas back and the caller's return
\* data is what call_inner / create_inner handed back (the child's bytes,
\* but nothing after a successful create); after a fatal error the caller
\* gets nothing back and its return data is empty.
Reimbursement ==
    ReturnedToFrame =>
        IF ExitClass(last.reason) \in {"Success", "Revert"}
        THEN /\ remaining(Top.gas) = remaining(last.gas_before) + remaining(last.gas)
             /\ Top.return_data_buffer = last.output
             /\ (last.returned = "create" /\ ExitClass(last.reason) = "Success")
                   => last.output = EmptyBytes
             /\ (last.ran /\ ~(last.returned = "create"
                                /\ ExitClass(last.reason) = "Success"))
                   => last.output = last.return_value
        ELSE /\ remaining(Top.gas) = remaining(last.gas_before)
             /\ Top.return_data_buffer = EmptyBytes

\* C9 as stated: the child's own bytes become the caller's return data after
\* every Success and Revert.
ReimbursementAsStated ==
    ReturnedToFrame =>
        IF ExitClass(last.reason) \in {"Success", "Revert"}
        THEN /\ remaining(Top.gas) = remaining(last.gas_before) + remaining(last.gas)
             /\ last.ran => Top.return_data_buffer = last.return_value
        ELSE /\ remaining(Top.gas) = remaining(last.gas_before)
             /\ Top.return_data_buffer = EmptyBytes

\* A child that ran came back with gas left, after a success or a revert.
ReimbursementWitness ==
    /\ ReturnedToFrame /\ last.ran
    /\ ExitClass(last.reason) \in {"Success", "Revert"}
    /\ remaining(last.gas) > 0
    /\ last.output # EmptyBytes

\* A create child deployed code: its bytes are not the caller's return data.
ReimbursementCreateWitness ==
    /\ ReturnedToFrame /\ last.returned = "create"
    /\ ExitClass(last.reason) = "Success"
    /\ last.return_value # EmptyBytes
    /\ Top.return_data_buffer = EmptyBytes

\* A create child came back with CreateContractLimit and gas left.
ReimbursementHaltWitness ==
    /\ ReturnedToFrame /\ last.reason = "CreateContractLimit"
    /\ remaining(last.gas) > 0

\* C10. What the caller observes: CALL* pushes 1 after a Success and 0
\* otherwise; CREATE* pushes the created address after a Success and the zero
\* word otherwise; after a Revert the caller's return data holds the revert
\* bytes.
CallerObserves ==
    ReturnedToFrame =>
        /\ last.returned = "call" =>
              Top.pushed = (IF ExitClass(last.reason) = "Success"
                            THEN OneWord ELSE ZeroWord)
        /\ last.returned = "create" =>
              IF ExitClass(last.reason) = "Success"
              THEN last.address # None /\ Top.pushed = last.address
              ELSE Top.pushed = ZeroWord
        /\ (last.reason = "Revert" /\ last.ran)
              => Top.return_data_buffer = last.return_value

\* create_inner handed back the derived address with a failure, and revert
\* bytes.
CallerObservesWitness ==
    /\ ReturnedToFrame /\ last.returned = "create"
    /\ last.reason = "Revert" /\ last.address # None
    /\ last.return_value # EmptyBytes
    /\ Top.pushed = ZeroWord

\* A call child reverted with bytes.
CallerObservesCallWitness ==
    /\ ReturnedToFrame /\ last.returned = "call"
    /\ last.reason = "Revert" /\ last.return_value # EmptyBytes

\* C11. 63/64 gas forwarding: the gas a CALL* instruction deducts from its
\* caller and forwards is min(requested, r - r div 64), and CREATE* forwards
\* r - r div 64, where r is the caller's remaining gas once the instruction's
\* own cost is charged; the caller keeps at least r div 64 while the child
\* runs; the child's gas limit is the forwarded gas, plus the stipend of
\* 2300 exactly for CALL and CALLCODE with a value, which the caller does
\* not pay.
EnteredChild == last.fwd.kind # None /\ last.returned = None /\ Len(frames) >= 2
GasForwarding ==
    LET w == last.fwd
        l64 == w.available - (w.available \div 64)
        stipend == IF w.kind = "call" /\ w.scheme \in {"Call", "CallCode"}
                      /\ w.value # 0
                   THEN CALL_STIPEND ELSE 0
    IN /\ w.kind = "call" => w.deducted = Min(w.requested, l64)
       /\ w.kind = "create" => w.deducted = l64
       /\ w.kind # None => w.limit = w.deducted + stipend
       /\ EnteredChild =>
             /\ Top.gas.limit = w.limit
             /\ remaining(frames[Len(frames) - 1].gas) = w.available - w.deducted
             /\ remaining(frames[Len(frames) - 1].gas) >= w.available \div 64

\* A CALL with a value entered a child with all but a 64th of the caller's
\* gas, plus the stipend.
GasForwardingWitness ==
    /\ EnteredChild /\ last.fwd.kind = "call" /\ last.fwd.scheme = "Call"
    /\ last.fwd.value # 0 /\ last.fwd.available \div 64 > 0
    /\ last.fwd.requested > last.fwd.available
    /\ Top.gas.limit = last.fwd.deducted + CALL_STIPEND

\* A CALL asked for less than what could be forwarded.
GasForwardingRequestedWitness ==
    /\ last.fwd.kind = "call" /\ last.fwd.requested < last.fwd.deducted + 1
    /\ last.fwd.requested < last.fwd.available - (last.fwd.available \div 64)

\* A CREATE entered its init code.
GasForwardingCreateWitness ==
    /\ EnteredChild /\ last.fwd.kind = "create" /\ last.fwd.available \div 64 > 0

\* C12. Sender nonce: once a transaction that passed the intrinsic-gas
\* check is over, whatever its outcome, the sender's nonce is one more than
\* it was in the database.
SenderNonce ==
    result.executed =>
        subroutine.state[Sender].nonce = DB[Sender].nonce + 1

\* A call transaction whose frame reverted: the increment outlives the
\* revert of the frame's checkpoint.
SenderNonceRevertWitness ==
    /\ result.executed /\ tx.kind = "call" /\ result.reason = "Revert"
    /\ last.ran /\ last.changed
    /\ subroutine.state[Sender].nonce = DB[Sender].nonce + 1

\* A create transaction sending more than the sender owns: create_inner
\* returns before it increments the nonce.
SenderNonceOutOfFund ==
    /\ result.executed /\ tx.kind = "create" /\ result.reason = "OutOfFund"
    /\ subroutine.state[Sender].nonce = DB[Sender].nonce

\* C13. Up-front fee deduction: when the top-level call or create has been
\* dispatched, the sender's balance is what the database held less
\* gas_limit * gas_price and less the value transferred.
Dispatched == phase = "running" /\ last.op \in {"tx_call", "tx_create"}
UpFrontFeeDeduction ==
    Dispatched =>
        subroutine.state[Sender].balance
            = DB[Sender].balance - tx.gas_limit * gas_price - tx.value

\* The top-level frame starts with the sender debited the value only.
UpFrontFeeMissing ==
    /\ Dispatched /\ tx.gas_limit * gas_price > 0
    /\ subroutine.state[Sender].balance = DB[Sender].balance - tx.value

\* C14. Fee settlement: when an executed transaction is over, finalize has
\* debited the sender and credited the coinbase gas_used * gas_price, on top
\* of what the execution left them with.
FeeSettlement ==
    result.executed =>
        /\ subroutine.state[Sender].balance
              = last.obs.accounts[Sender].balance - result.gas_used * gas_price
        /\ subroutine.state[Coinbase].balance
              = last.obs.accounts[Coinbase].balance + result.gas_used * gas_price

\* The execution left the sender less than the fee: nothing was paid.
FeeNotPaid ==
    /\ result.executed /\ result.gas_used * gas_price > 0
    /\ last.obs.accounts[Sender].balance < result.gas_used * gas_price
    /\ subroutine.state[Sender].balance = last.obs.accounts[Sender].balance
    /\ subroutine.state[Coinbase].balance = last.obs.accounts[Coinbase].balance

\* C15. Intrinsic-gas rejection has no effect: a transaction whose gas limit
\* is below the intrinsic gas ends with an error, gas_used = 0 and an empty
\* state diff; no frame ran, and balances, nonces, code, storage and logs are
\* those of the database.
IntrinsicGas == initialization(tx.data, tx.kind = "create", tx.access_list)
IntrinsicGasRejection ==
    (phase = "done" /\ tx.gas_limit < IntrinsicGas) =>
        /\ result.reason \in Errors
        /\ result.gas_used = 0
        /\ result.state = {}
        /\ ~result.executed /\ ~last.ran /\ nops = 0 /\ frames = << >>
        /\ Observable(subroutine) = Observable(SubRoutine_new)

\* A create transaction was rejected for its gas limit.
IntrinsicGasRejectionWitness ==
    /\ phase = "done" /\ tx.kind = "create" /\ tx.value = 0
    /\ tx.gas_limit < IntrinsicGas /\ tx.gas_limit > 0
    /\ last.op = "tx_rejected"

\* A call transaction was rejected for its gas limit.
IntrinsicGasRejectionCallWitness ==
    /\ phase = "done" /\ tx.kind = "call"
    /\ tx.gas_limit < IntrinsicGas
    /\ last.op = "tx_rejected"

(***************************************************************************)
(* EVM::initialization over the bytes of the input and the entries of the  *)
(* access list: a transaction is put together piece by piece and handed to *)
(* initialization.  Here tx.data is a sequence of bytes and tx.access_list *)
(* a sequence of <<address, sequence of storage keys>>.                    *)
(***************************************************************************)
ByteValues == {0, 239}
AccessListAddresses == {"A", "B"}
StorageKeys == {1}

\* input.iter().filter(|v| **v == 0).count()
RECURSIVE zero_data_len(_)
zero_data_len(input) ==
    IF input = << >> THEN 0
    ELSE (IF Head(input) = 0 THEN 1 ELSE 0) + zero_data_len(Tail(input))

\* input.len() - zero_data_len.  (Variant: every byte counted.)
non_zero_data_len_all(input) == Len(input)
non_zero_data_len(input) == Len(input) - zero_data_len(input)

\* The loop over the access list: accessed_slots += slots.len().
RECURSIVE accessed_slots(_)
accessed_slots(access_list) ==
    IF access_list = << >> THEN 0
    ELSE Len(Head(access_list)[2]) + accessed_slots(Tail(access_list))

initialization_gas(input, is_create, access_list) ==
    LET accessed_accounts == Len(access_list)
        transact == IF is_create THEN GAS_TRANSACTION_CREATE ELSE GAS_TRANSACTION_CALL
    IN transact
       + zero_data_len(input) * GAS_TRANSACTION_ZERO_DATA
       + non_zero_data_len(input) * GAS_TRANSACTION_NON_ZERO_DATA
       + accessed_accounts * GAS_ACCESS_LIST_ADDRESS
       + accessed_slots(access_list) * GAS_ACCESS_LIST_STORAGE_KEY

\* The access list as the journal sees it: each address with the number of
\* its keys.
access_list_counts(access_list) ==
    [i \in 1..Len(access_list) |-> <<access_list[i][1], Len(access_list[i][2])>>]

InitInput ==
    /\ spec \in SpecIds
    /\ gas_price \in GasPrices
    /\ subroutine = SubRoutine_new
    /\ frames = << >>
    /\ phase = "input"
    /\ tx \in {[NoTx EXCEPT !.kind = k, !.caller = Sender, !.data = << >>]
                  : k \in {"call", "create"}}
    /\ result = NoResult
    /\ last = NoEvent
    /\ nops = 0

Building == phase = "input"

push_byte(b) ==
    /\ Building /\ Len(tx.data) < MaxInputLen
    /\ tx' = [tx EXCEPT !.data = Append(@, b)]
    /\ UNCHANGED <<spec, gas_price, subroutine, frames, phase, result, last, nops>>

push_address(a) ==
    /\ Building /\ Len(tx.access_list) < MaxAccessList
    /\ tx' = [tx EXCEPT !.access_list = Append(@, <<a, << >> >>)]
    /\ UNCHANGED <<spec, gas_price, subroutine, frames, phase, result, last, nops>>

push_key(k) ==
    /\ Building /\ tx.access_list # << >>
    /\ Len(tx.access_list[Len(tx.access_list)][2]) < MaxKeys
    /\ tx' = [tx EXCEPT !.access_list[Len(tx.access_list)][2] = Append(@, k)]
    /\ UNCHANGED <<spec, gas_price, subroutine, frames, phase, result, last, nops>>

\* EVM::initialization on the transaction put together.
EVM_initialization ==
    /\ Building
    /\ subroutine' = initialization_state(subroutine,
                                          access_list_counts(tx.access_list))
    /\ result' = [NoResult EXCEPT !.gas_used_init =
                      initialization_gas(tx.data, tx.kind = "create", tx.access_list)]
    /\ phase' = "initialized"
    /\ last' = [NoEvent EXCEPT !.op = "initialization"]
    /\ UNCHANGED <<spec, gas_price, frames, tx, nops>>

NextInput ==
    \/ \E b \in ByteValues : push_byte(b)
    \/ \E a \in AccessListAddresses : push_address(a)
    \/ \E k \in StorageKeys : push_key(k)
    \/ EVM_initialization

SpecInput == InitInput /\ [][NextInput]_vars

\* The bytes of the input that are zero, and those that are not; the storage
\* keys of the whole access list.
ZeroBytes == Cardinality({i \in 1..Len(tx.data) : tx.data[i] = 0})
NonZeroBytes == Cardinality({i \in 1..Len(tx.data) : tx.data[i] # 0})
AccessListKeys ==
    Cardinality({<<i, j>> \in (1..MaxAccessList + 1) \X (1..MaxKeys + 1) :
                    i <= Len(tx.access_list) /\ j <= Len(tx.access_list[i][2])})

\* C16. Intrinsic gas formula: initialization returns 53000 for a create and
\* 21000 for a call, plus 4 for every zero byte of the input, 16 for every
\* other byte, 2400 for every entry of the access list and 1900 for every
\* storage key in it.
IntrinsicGasFormula ==
    phase = "initialized" =>
        /\ ZeroBytes + NonZeroBytes = Len(tx.data)
        /\ result.gas_used_init =
              (IF tx.kind = "create" THEN 53000 ELSE 21000)
              + ZeroBytes * 4 + NonZeroBytes * 16
              + Len(tx.access_list) * 2400 + AccessListKeys * 1900

\* A create whose input mixes zero and other bytes and whose access list
\* has two entries with different numbers of keys.
IntrinsicGasFormulaWitness ==
    /\ phase = "initialized" /\ tx.kind = "create"
    /\ ZeroBytes > 0 /\ NonZeroBytes > ZeroBytes
    /\ Len(tx.access_list) = 2
    /\ Len(tx.access_list[1][2]) # Len(tx.access_list[2][2])
    /\ result.gas_used_init = 53000 + 4 + 32 + 4800 + AccessListKeys * 1900

\* C17. Create collision: a create that passed the depth and balance checks
\* and whose derived address has a nonce or code fails with CreateCollision,
\* and only such a create does; no init code ran, the observable journal
\* (the address's balance, code, nonce and storage included) is as it was
\* when the checkpoint was taken, and the checkpoint is closed.
Taken(acc) == acc.nonce # 0 \/ acc.code # EmptyBytes
CreateCollision ==
    (last.returned = "create" /\ last.address # None) =>
        /\ last.reason = "CreateCollision" <=> Taken(last.snap.accounts[last.address])
        /\ last.reason = "CreateCollision" =>
              /\ ~last.ran
              /\ last.obs = last.snap
              /\ last.depth = last.entry_depth

\* A CREATE with a value met an address that has code and a nonce.
CreateCollisionWitness ==
    /\ last.returned = "create" /\ last.reason = "CreateCollision"
    /\ last.fwd.value > 0
    /\ last.snap.accounts[last.address].code # EmptyBytes
    /\ last.snap.accounts[last.address].nonce # 0
    /\ last.obs.accounts[last.address] = last.snap.accounts[last.address]

\* A create whose init code ran and ended in the Success class, with the
\* bytes it returned.
InitCodeSucceeded ==
    last.returned = "create" /\ last.ran /\ ExitClass(last.frame_exit) = "Success"
DeployedLen == last.return_value.len
\* All the gas supplied to the create is consumed: the caller gets nothing
\* back, the transaction is charged its whole gas limit.
AllGasConsumed ==
    IF last.top THEN result.gas_used = tx.gas_limit
    ELSE remaining(Top.gas) = remaining(last.gas_before)

\* C18. Code deposit: when init code ends successfully with n bytes within
\* the size limit and the frame has 200 * n gas left, the frame's meter is
\* charged exactly 200 * n and the bytes become the code of the created
\* account; with less gas left the create fails with OutOfGas, the journal
\* is as it was at the checkpoint (no code set), the checkpoint is closed and
\* all the gas supplied to the create is consumed.
CodeDeposit ==
    (InitCodeSucceeded /\ DeployedLen <= 24576) =>
        IF remaining(last.frame_gas) >= 200 * DeployedLen
        THEN /\ last.reason = "Returned"
             /\ last.gas.limit = last.frame_gas.limit
             /\ last.gas.all_used = last.frame_gas.all_used + 200 * DeployedLen
             /\ last.obs.accounts[last.address].code = last.return_value
        ELSE /\ last.reason = "OutOfGas"
             /\ last.obs = last.snap
             /\ last.obs.accounts[last.address].code = EmptyBytes
             /\ last.depth = last.entry_depth
             /\ AllGasConsumed

\* Init code returned bytes and they were deployed for 200 gas each.
CodeDepositWitness ==
    /\ InitCodeSucceeded /\ DeployedLen > 0 /\ last.reason = "Returned"
    /\ last.gas.all_used = last.frame_gas.all_used + 200 * DeployedLen
    /\ last.obs.accounts[last.address].code = last.return_value

\* Init code returned more bytes than its gas could pay for: a nested create
\* with gas left.
CodeDepositOutOfGasWitness ==
    /\ InitCodeSucceeded /\ DeployedLen <= 24576 /\ last.reason = "OutOfGas"
    /\ ~last.top /\ remaining(last.frame_gas) > 0
    /\ remaining(last.frame_gas) < 200 * DeployedLen

\* C19. Contract size limit: when init code returns more than 24576 bytes
\* the create fails with CreateContractLimit, the journal is as it was at
\* the checkpoint (the value transferred and the nonce of the new account
\* undone, no code set) and the checkpoint is closed; 24576 bytes are not
\* refused for their size, and are deployed when the gas pays for them.
ContractSizeLimit ==
    InitCodeSucceeded =>
        /\ DeployedLen > 24576 =>
              /\ last.reason = "CreateContractLimit"
              /\ last.changed
              /\ last.obs = last.snap
              /\ last.obs.accounts[last.address].code = EmptyBytes
              /\ last.depth = last.entry_depth
        /\ DeployedLen <= 24576 => last.reason # "CreateContractLimit"
        /\ (DeployedLen = 24576 /\ remaining(last.frame_gas) >= 200 * 24576) =>
              /\ last.reason = "Returned"
              /\ last.obs.accounts[last.address].code = last.return_value

\* Init code that was sent a value returned one byte too many.
ContractSizeLimitWitness ==
    /\ InitCodeSucceeded /\ DeployedLen = 24577
    /\ last.reason = "CreateContractLimit" /\ last.changed
    /\ last.obs.accounts[last.address].balance = 0
    /\ last.obs.accounts[last.address].nonce = 0

\* Code of exactly the limit was deployed.
ContractSizeLimitAtLimitWitness ==
    /\ InitCodeSucceeded /\ DeployedLen = 24576 /\ last.reason = "Returned"
    /\ last.obs.accounts[last.address].code.len = 24576

\* C20. EIP-3541: from London on, a create whose init code returns bytes
\* starting with 0xEF is rejected: it does not succeed, and the journal is as
\* it was at the checkpoint (no code set).
RejectsCodeStartingWithEF ==
    (InitCodeSucceeded /\ enabled(spec, "LONDON") /\ DeployedLen > 0
       /\ last.return_value.first = 239) =>
        /\ ExitClass(last.reason) # "Success"
        /\ last.obs = last.snap

\* Under London, bytes starting with 0xEF were deployed.
DeployedCodeStartingWithEF ==
    /\ InitCodeSucceeded /\ spec = "LONDON" /\ last.reason = "Returned"
    /\ last.obs.accounts[last.address].code.first = 239

\* A call whose code address is a precompile got as far as the precompile.
PrecompileCalled ==
    /\ last.returned = "call" /\ ~last.ran
    /\ last.callee.address \in PrecompileAddresses
    /\ last.reason \notin {"CallTooDeep", "OutOfFund"}

\* C21. Precompile call path: when the precompile returns output, cost and
\* logs and the cost is within the call's gas limit, exactly the cost is
\* charged, the logs are appended to the journal in the order returned, the
\* value transfer stands, the checkpoint is closed and the output is returned
\* with Success; when the cost exceeds the limit or the precompile fails, the
\* call ends with an error and the journal, logs and balances included, is
\* as it was before the call.
PrecompilePath ==
    PrecompileCalled =>
        LET pr == last.callee.pr
            from == last.callee.source
            to == last.callee.address
            v == last.callee.value
        IN IF pr.ok /\ pr.cost <= last.gas.limit
           THEN /\ last.reason = "Returned"
                /\ last.gas.all_used = pr.cost
                /\ last.obs.logs = last.snap.logs \o pr.logs
                /\ last.output = pr.output
                /\ last.obs.accounts[to].balance = last.snap.accounts[to].balance + v
                /\ last.obs.accounts[from].balance
                      = last.snap.accounts[from].balance - v
                /\ last.depth = last.entry_depth
           ELSE /\ ExitClass(last.reason) = "Halt"
                /\ last.output = EmptyBytes
                /\ last.obs = last.snap
                /\ last.depth = last.entry_depth

\* A precompile called with a value returned two logs, behind a log already
\* in the journal.
PrecompilePathWitness ==
    /\ PrecompileCalled /\ last.reason = "Returned"
    /\ last.callee.value > 0 /\ Len(last.callee.pr.logs) = 2
    /\ last.snap.logs # << >>
    /\ last.obs.logs = last.snap.logs \o last.callee.pr.logs

\* A precompile called with a value cost more than the gas limit.
PrecompilePathOutOfGasWitness ==
    /\ PrecompileCalled /\ last.reason = "OutOfGas"
    /\ last.callee.value > 0 /\ last.callee.pr.ok
    /\ last.callee.pr.cost > last.gas.limit

\* A precompile called with a value failed.
PrecompilePathErrorWitness ==
    /\ PrecompileCalled /\ last.reason = "PrecompileError"
    /\ last.callee.value > 0 /\ ~last.callee.pr.ok

(***************************************************************************)
(* Logs told apart: a transaction to contract B in which every LOG1 carries*)
(* the number of instructions executed before it as its topic, between     *)
(* calls, creates and frame ends of every class.                           *)
(***************************************************************************)
LogCallInputs ==
    {CallIn("Call", "B", 0, U64_MAX, NoPrecompile),
     CallIn("Call", "P", 0, U64_MAX, PrecompileOk),
     CallIn("StaticCall", "B", 0, U64_MAX, NoPrecompile)}

NextLogs ==
    \/ EVM_call(FALSE, "B", 1, EmptyBytes, 200000, NoAccessList, NoPrecompile)
    \/ TxReturn
    \/ ChildReturn
    \/ log_op(1, <<nops>>)
    \/ \E c \in LogCallInputs : call_op(c.scheme, c.to, c.value, c.gas, c.pr)
    \/ create_op(FALSE, 0, ContractCode)
    \/ selfdestruct_op("A")
    \/ stop_op
    \/ revert_op(EmptyBytes)
    \/ halt_op

SpecLogs == Init /\ [][NextLogs]_vars

\* C22. Log ordering: the logs in the journal after a successful top-level
\* transaction are exactly the logs emitted, by LOG and by precompiles, in
\* frames all of whose enclosing frames ended in the Success class, in the
\* order of emission.
TxSucceeded == result.executed /\ ExitClass(result.reason) = "Success"
LogOrderingRevertedWitness ==
    /\ TxSucceeded /\ last.ran
    /\ Len(subroutine.logs) = 1
    /\ subroutine.logs[1].topics = <<2>>

\* C23. Out-of-gas precedes side effects: an instruction that ends its frame
\* with OutOfGas has changed nothing in the journal: no slot written, no
\* account marked as destroyed, no balance moved, no log added.
OutOfGasStep ==
    /\ Running
    /\ last'.op \in {"sstore", "log", "selfdestruct", "call", "call_value", "create"}
    /\ Len(frames') = Len(frames)
    /\ frames'[Len(frames')].exit = "OutOfGas"
OutOfGasBeforeEffects ==
    [][OutOfGasStep => Observable(subroutine') = Observable(subroutine)]_vars

\* SSTORE ran out of gas in a frame, with the slot already written.
SstoreWrittenBeforeOutOfGas ==
    /\ phase = "running" /\ frames # << >>
    /\ last.op = "sstore" /\ Top.exit = "OutOfGas"
    /\ subroutine.state[Top.address].slot # Top.snap.accounts[Top.address].slot

\* SELFDESTRUCT ran out of gas in a frame, with the account already marked
\* and its balance moved.
SelfdestructDoneBeforeOutOfGas ==
    /\ phase = "running" /\ frames # << >>
    /\ last.op = "selfdestruct" /\ Top.exit = "OutOfGas"
    /\ subroutine.state[Top.address].destroyed



(***************************************************************************)
(* The Handler's account loads, one instruction at a time: BALANCE,        *)
(* EXTCODESIZE and EXTCODEHASH in the top-level frame of a call.           *)
(***************************************************************************)
\* gas::account_access_gas, Berlin and later.
account_access_gas(cold) == IF cold THEN 2600 ELSE 100

\* The instruction made the load `l`.
HostLoaded(ev, l) == [ev EXCEPT !.host_loads = last.host_loads \o <<l>>]

\* An instruction that loads an account, charges for the access whatever
\* it is, and pushes what it read.
load_op(op, h, cost) ==
    LET f == Top
    IN IF ~can_record_cost(f.gas, cost)
       THEN Step(Exit(f, "OutOfGas", EmptyBytes), h.sr,
                 HostLoaded(OpEvent(op, f), h.load))
       ELSE Step([f EXCEPT !.gas = record_cost(@, cost)], h.sr,
                 HostLoaded(OpEvent(op, f), h.load))

balance_op(address) ==
    /\ CanStep
    /\ LET h == Handler_balance(subroutine, address)
       IN load_op("balance", h,
                  IF enabled(spec, "ISTANBUL") THEN account_access_gas(h.load.is_cold)
                  ELSE IF enabled(spec, "TANGERINE") THEN 400 ELSE 20)

extcodesize_op(address) ==
    /\ CanStep
    /\ LET h == Handler_code(subroutine, address)
       IN load_op("extcodesize", h, account_access_gas(h.load.is_cold))

extcodehash_op(address) ==
    /\ CanStep
    /\ LET h == Handler_code_hash(subroutine, address)
       IN IF ~enabled(spec, "CONSTANTINOPLE")
          THEN Step(Exit(Top, "NotActivated", EmptyBytes), subroutine,
                    [OpEvent("extcodehash", Top) EXCEPT !.host_loads = last.host_loads])
          ELSE load_op("extcodehash", h,
                       IF enabled(spec, "ISTANBUL")
                       THEN account_access_gas(h.load.is_cold) ELSE 400)

\* SubRoutine::sload: the slot is warm from now on.
sload(sr, a) == Write(sr, a, "slot_warm", TRUE)
\* gas::sload_cost, Berlin and later.
sload_cost(cold) == IF cold THEN 2100 ELSE 100

\* SLOAD reads the slot of the executing contract.
sload_op ==
    /\ CanStep
    /\ LET f == Top
           cold == ~subroutine.state[f.address].slot_warm
           s1 == sload(subroutine, f.address)
           ev == [OpEvent("sload", f) EXCEPT
                      !.host_loads = last.host_loads,
                      !.sload = [address |-> f.address, is_cold |-> cold]]
       IN IF ~can_record_cost(f.gas, sload_cost(cold))
          THEN Step(Exit(f, "OutOfGas", EmptyBytes), s1, ev)
          ELSE Step([f EXCEPT !.gas = record_cost(@, sload_cost(cold))], s1, ev)

\* Access lists tried: none, one naming the address N without keys, and
\* one naming the contract B with its storage key.
AccessListN == << <<"N", 0>> >>
LoadAccessLists == {NoAccessList, AccessListN, AccessListB}

NextLoads ==
    \/ \E al \in LoadAccessLists :
          EVM_call(FALSE, "B", 0, EmptyBytes, 200000, al, NoPrecompile)
    \/ \E a \in Addr : balance_op(a)
    \/ \E a \in Addr : extcodesize_op(a)
    \/ \E a \in Addr : extcodehash_op(a)
    \/ sload_op
    \/ stop_op

SpecLoads == Init /\ [][NextLoads]_vars

\* The load at position i of the history is the first of its address.
FirstLoad(i) ==
    \A j \in 1..(i - 1) : last.host_loads[j].address # last.host_loads[i].address
\* Addresses EVM::initialization has loaded before any Handler load.
WarmedUp == PrecompileAddresses \cup {tx.access_list[i][1] : i \in 1..Len(tx.access_list)}

\* C24, as stated: the first Handler load of an address reports is_cold,
\* every later load of it does not, and the inspector's load_account hook is
\* called exactly for the loads that report cold.
ColdWarmIdempotence ==
    \A i \in 1..Len(last.host_loads) :
        /\ last.host_loads[i].is_cold <=> FirstLoad(i)
        /\ last.host_loads[i].hook <=> last.host_loads[i].is_cold

\* C24, amended: the first Handler load of an address reports is_cold
\* unless the address is a precompile or on the access list, which
\* initialization has loaded already; every later load reports not cold;
\* the hook is called exactly for the loads that report cold.
ColdUnlessWarmedUp ==
    \A i \in 1..Len(last.host_loads) :
        /\ last.host_loads[i].is_cold
              <=> (FirstLoad(i) /\ last.host_loads[i].address \notin WarmedUp)
        /\ last.host_loads[i].hook <=> last.host_loads[i].is_cold

\* An instruction loaded an address cold that no one had loaded, and
\* another instruction, through another Handler function, then found it warm.
ColdUnlessWarmedUpWitness ==
    \E i, j \in 1..Len(last.host_loads) :
        /\ i > 3 /\ i < j
        /\ last.host_loads[i].address = last.host_loads[j].address
        /\ last.host_loads[i].via # last.host_loads[j].via
        /\ last.host_loads[i].is_cold /\ last.host_loads[i].hook
        /\ ~last.host_loads[j].is_cold /\ ~last.host_loads[j].hook

\* The first Handler load of the precompile address reported not cold.
FirstLoadOfPrecompileWarm ==
    \E i \in 1..Len(last.host_loads) :
        /\ FirstLoad(i)
        /\ last.host_loads[i].address \in PrecompileAddresses
        /\ ~last.host_loads[i].is_cold


\* The access-list addresses that come with storage keys.
WithKeys == {tx.access_list[i][1] : i \in {j \in 1..Len(tx.access_list) : tx.access_list[j][2] > 0}}
\* What is to be warm when the top-level frame starts: the access list, the
\* precompiles, the sender and the recipient.  (No hardfork of this
\* repository is Shanghai or later.)
ToBeWarm == WarmedUp \cup {tx.caller, tx.address}
\* The Handler loads made by executed code: those after the driver's.
CodeLoads ==
    {i \in 1..Len(last.host_loads) :
        i > Len(EVM_call_loads(SubRoutine_new, tx.caller, tx.address))}

AccessListWarmUpSlotWitness ==
    /\ phase = "running" /\ nops = 1
    /\ last.sload.address \in WithKeys
    /\ ~last.sload.is_cold

\* Without an access list the first SLOAD of the same key is cold.
AccessListWarmUpColdSlotWitness ==
    /\ phase = "running" /\ nops = 1 /\ tx.access_list = NoAccessList
    /\ last.sload.address = tx.address
    /\ last.sload.is_cold


(***************************************************************************)
(* The four call schemes from a contract to another address: the top-level *)
(* frame runs B for the sender A with value 1; its calls go to N or to B   *)
(* itself, with value 0, 2 (all B then owns) or 3.                         *)
(***************************************************************************)
ContextCallInputs ==
    {CallIn(scheme, to, value, U64_MAX, NoPrecompile) :
        scheme \in {"Call", "CallCode", "DelegateCall", "StaticCall"},
        to \in {"N", "B"}, value \in {0, 2, 3}}

NextContext ==
    \/ EVM_call(FALSE, "B", 1, EmptyBytes, 200000, NoAccessList, NoPrecompile)
    \/ TxReturn
    \/ ChildReturn
    \/ \E c \in ContextCallInputs : call_op(c.scheme, c.to, c.value, c.gas, c.pr)
    \/ stop_op

SpecContext == Init /\ [][NextContext]_vars

\* C26: the child frame of Call and StaticCall runs at the target with the
\* calling contract as caller and the call's value (zero for StaticCall);
\* the child of CallCode runs at the calling contract with the calling
\* contract as caller and the call's value; the child of DelegateCall runs
\* at the calling contract with the caller and value of the calling frame.
CallContextPerScheme ==
    (EnteredChild /\ last.fwd.kind = "call") =>
        LET child == Top
            parent == frames[Len(frames) - 1]
            c == last.ctx
        IN /\ c.scheme = "Call" =>
                 /\ child.address = c.to
                 /\ child.caller = parent.address
                 /\ child.value = c.value
           /\ c.scheme = "StaticCall" =>
                 /\ child.address = c.to
                 /\ child.caller = parent.address
                 /\ child.value = 0
           /\ c.scheme = "CallCode" =>
                 /\ child.address = parent.address
                 /\ child.caller = parent.address
                 /\ child.value = c.value
           /\ c.scheme = "DelegateCall" =>
                 /\ child.address = parent.address
                 /\ child.caller = parent.caller
                 /\ child.value = parent.value

\* A DELEGATECALL to another address, with a value operand that is not the
\* frame's value, entered a child that kept the frame's address, caller
\* and value, none of which is the target or the executing contract's own.
CallContextPerSchemeWitness ==
    /\ EnteredChild /\ last.ctx.scheme = "DelegateCall"
    /\ last.ctx.to = "N" /\ last.ctx.value = 2
    /\ Top.address = "B" /\ Top.caller = "A" /\ Top.value = 1

\* A CALL with a value entered a child at the target.
CallContextPerSchemeCallWitness ==
    /\ EnteredChild /\ last.ctx.scheme = "Call"
    /\ Top.address = "N" /\ Top.caller = "B" /\ Top.value = 2

\* A CALLCODE with a value entered a child at the calling contract.
CallContextPerSchemeCallCodeWitness ==
    /\ EnteredChild /\ last.ctx.scheme = "CallCode" /\ last.ctx.to = "N"
    /\ Top.address = "B" /\ Top.caller = "B" /\ Top.value = 2


Balances(sr) == [a \in Addr |-> sr.state[a].balance]
TouchedAccounts(sr) == {a \in Addr : sr.state[a].touched}
\* This step is a CALLCODE, DELEGATECALL or STATICCALL that went as far as
\* host.call.
CalledOutsideCall ==
    /\ nops' = nops + 1
    /\ last'.fwd.kind = "call"
    /\ last'.fwd.scheme \in {"CallCode", "DelegateCall", "StaticCall"}

NoTransferOutsideCallOutOfFundWitness ==
    /\ last.fwd.kind = "call" /\ last.fwd.scheme = "CallCode"
    /\ last.fwd.value = 3
    /\ last.reason = "OutOfFund"

\* A DELEGATECALL whose value operand is above what the contract owns
\* entered its child.
NoTransferOutsideCallDelegateWitness ==
    /\ EnteredChild /\ last.ctx.scheme = "DelegateCall" /\ last.ctx.value = 3


(***************************************************************************)
(* Account and AccountInfo of the primitives crate: one account of the     *)
(* State, its fields written and its status flags marked and unmarked.     *)
(***************************************************************************)
\* AccountStatus: the flags, one bit each of a u8.
Loaded == 0
Created == 1
SelfDestructed == 2
Touched == 4
LoadedAsNotExisting == 8
AccountStatus_all == Created + SelfDestructed + Touched + LoadedAsNotExisting

\* Bitwise and / or of two u8.
RECURSIVE bitand(_, _)
bitand(a, b) ==
    IF a = 0 \/ b = 0 THEN 0
    ELSE (a % 2) * (b % 2) + 2 * bitand(a \div 2, b \div 2)
RECURSIVE bitor(_, _)
bitor(a, b) ==
    IF a = 0 THEN b ELSE IF b = 0 THEN a
    ELSE (IF a % 2 = 1 \/ b % 2 = 1 THEN 1 ELSE 0) + 2 * bitor(a \div 2, b \div 2)

\* `status |= flag`, `status -= flag` (the difference: and with the
\* complement, truncated to the known flags), `status.contains(flag)`.
status_insert(status, flag) == bitor(status, flag)
status_remove(status, flag) == bitand(status, bitand(255 - flag, AccountStatus_all))
status_contains(status, flag) == bitand(status, flag) = flag

\* Code hashes: the all-zero hash, the hash of the empty string, another.
B256_ZERO == "0x00..00"
KECCAK_EMPTY == "keccak256()"
CodeHashes == {B256_ZERO, KECCAK_EMPTY, "0x01..01"}

AccountInfo_new(balance, nonce, code_hash) ==
    [balance |-> balance, nonce |-> nonce, code_hash |-> code_hash]
AccountInfo_default == AccountInfo_new(0, 0, KECCAK_EMPTY)

\* AccountInfo::is_empty.  (Variant: only the hash of the empty string
\* counts as no code.)
AccountInfo_is_empty_keccak_only(info) ==
    info.balance = 0 /\ info.nonce = 0 /\ info.code_hash = KECCAK_EMPTY
AccountInfo_is_empty(info) ==
    LET code_empty == info.code_hash = KECCAK_EMPTY \/ info.code_hash = B256_ZERO
    IN info.balance = 0 /\ info.nonce = 0 /\ code_empty
AccountInfo_exists(info) == ~AccountInfo_is_empty(info)

\* Account: default, new_not_existing, From<AccountInfo>.
NoStorage == << >>
Account_default ==
    [info |-> AccountInfo_default, storage |-> NoStorage, status |-> Loaded]
new_not_existing ==
    [info |-> AccountInfo_default, storage |-> NoStorage, status |-> LoadedAsNotExisting]
Account_from(info) == [info |-> info, storage |-> NoStorage, status |-> Loaded]
Account_is_empty(acc) == AccountInfo_is_empty(acc.info)

mark_selfdestruct(acc) == [acc EXCEPT !.status = status_insert(@, SelfDestructed)]
unmark_selfdestruct(acc) == [acc EXCEPT !.status = status_remove(@, SelfDestructed)]
is_selfdestructed(acc) == status_contains(acc.status, SelfDestructed)
mark_touch(acc) == [acc EXCEPT !.status = status_insert(@, Touched)]
\* (Variant: unmarking the touch clears the whole status.)
unmark_touch_clears_status(acc) == [acc EXCEPT !.status = Loaded]
unmark_touch(acc) == [acc EXCEPT !.status = status_remove(@, Touched)]
is_touched(acc) == status_contains(acc.status, Touched)
mark_created(acc) == [acc EXCEPT !.status = status_insert(@, Created)]
unmark_created(acc) == [acc EXCEPT !.status = status_remove(@, Created)]
is_loaded_as_not_existing(acc) == status_contains(acc.status, LoadedAsNotExisting)
is_created(acc) == status_contains(acc.status, Created)

\* The account under the address A of the State the caller holds.
TheAccount == result.state["A"]
InitAccount ==
    /\ spec \in SpecIds
    /\ gas_price \in GasPrices
    /\ subroutine = SubRoutine_new
    /\ frames = << >>
    /\ phase = "account"
    /\ tx = NoTx
    /\ result \in {[NoResult EXCEPT !.state = [a \in {"A"} |-> acc]] :
                      acc \in {Account_default, new_not_existing,
                               Account_from(AccountInfo_new(1, 1, "0x01..01"))}}
    /\ last = NoEvent
    /\ nops = 0

\* The operation `op` left the account as acc.
AccountStep(op, acc) ==
    /\ phase = "account"
    /\ result' = [result EXCEPT !.state["A"] = acc]
    /\ last' = [NoEvent EXCEPT !.op = op]
    /\ UNCHANGED <<spec, gas_price, subroutine, frames, phase, tx, nops>>

\* The fields are written as the tests write them (account.info.balance =
\* .., storage.insert(1, StorageSlot::new(v))); the flags are marked and
\* unmarked through the methods.
NextAccount ==
    \/ \E v \in {0, 1} :
          AccountStep("set_balance", [TheAccount EXCEPT !.info.balance = v])
    \/ \E v \in {0, 1} :
          AccountStep("set_nonce", [TheAccount EXCEPT !.info.nonce = v])
    \/ \E h \in CodeHashes :
          AccountStep("set_code_hash", [TheAccount EXCEPT !.info.code_hash = h])
    \/ \E v \in {0, 1} :
          AccountStep("storage_insert",
                      [TheAccount EXCEPT !.storage =
                          <<[previous_or_original_value |-> v, present_value |-> v]>>])
    \/ AccountStep("mark_touch", mark_touch(TheAccount))
    \/ AccountStep("unmark_touch", unmark_touch(TheAccount))
    \/ AccountStep("mark_selfdestruct", mark_selfdestruct(TheAccount))
    \/ AccountStep("unmark_selfdestruct", unmark_selfdestruct(TheAccount))
    \/ AccountStep("mark_created", mark_created(TheAccount))
    \/ AccountStep("unmark_created", unmark_created(TheAccount))

SpecAccount == InitAccount /\ [][NextAccount]_vars

\* C28: an account is empty exactly when its balance and its nonce are zero
\* and its code hash is the all-zero hash or KECCAK_EMPTY; exists() is the
\* negation; the default account and Account::new_not_existing() are empty.
AccountEmptiness ==
    /\ Account_is_empty(TheAccount)
          <=> /\ TheAccount.info.balance = 0
              /\ TheAccount.info.nonce = 0
              /\ TheAccount.info.code_hash \in {B256_ZERO, KECCAK_EMPTY}
    /\ AccountInfo_exists(TheAccount.info) <=> ~Account_is_empty(TheAccount)
    /\ Account_is_empty(Account_default)
    /\ Account_is_empty(new_not_existing)

\* An account with the all-zero code hash, after its balance was set and
\* set back to zero, is empty and does not exist.
AccountEmptinessWitness ==
    /\ phase = "account" /\ last.op = "set_balance"
    /\ TheAccount.info.code_hash = B256_ZERO
    /\ Account_is_empty(TheAccount) /\ ~AccountInfo_exists(TheAccount.info)

\* An account with no balance and no nonce but another code hash is not
\* empty.
AccountEmptinessCodeWitness ==
    /\ phase = "account"
    /\ TheAccount.info.balance = 0 /\ TheAccount.info.nonce = 0
    /\ TheAccount.info.code_hash = "0x01..01"
    /\ ~Account_is_empty(TheAccount) /\ AccountInfo_exists(TheAccount.info)


\* The flags of an account as its readers see them.
Flags(acc) ==
    [touched |-> is_touched(acc), selfdestructed |-> is_selfdestructed(acc),
     created |-> is_created(acc),
     loaded_as_not_existing |-> is_loaded_as_not_existing(acc)]
\* The flags expected once `op` has acted on an account whose flags were fl.
FlagsAfter(op, fl) ==
    CASE op = "mark_touch" -> [fl EXCEPT !.touched = TRUE]
      [] op = "unmark_touch" -> [fl EXCEPT !.touched = FALSE]
      [] op = "mark_selfdestruct" -> [fl EXCEPT !.selfdestructed = TRUE]
      [] op = "unmark_selfdestruct" -> [fl EXCEPT !.selfdestructed = FALSE]
      [] op = "mark_created" -> [fl EXCEPT !.created = TRUE]
      [] op = "unmark_created" -> [fl EXCEPT !.created = FALSE]
      [] OTHER -> fl
MarkOps ==
    {"mark_touch", "unmark_touch", "mark_selfdestruct", "unmark_selfdestruct",
     "mark_created", "unmark_created"}

\* C29: a new account has none of the three flags; every mark and unmark
\* sets or clears its own flag, leaves every other flag (LoadedAsNotExisting
\* too) as it was, and leaves the account's info and storage alone; so
\* each flag reads as its last mark or unmark left it.
StatusFlagsIndependent ==
    /\ (phase = "account" =>
           ~is_touched(TheAccount) /\ ~is_selfdestructed(TheAccount)
           /\ ~is_created(TheAccount))
    /\ [][(phase = "account" /\ last'.op \in MarkOps) =>
             /\ Flags(TheAccount') = FlagsAfter(last'.op, Flags(TheAccount))
             /\ TheAccount'.info = TheAccount.info
             /\ TheAccount'.storage = TheAccount.storage
         ]_vars

\* An account loaded as not existing, with a storage slot, marked
\* self-destructed and created, has just had its touch unmarked: the other
\* three flags still read set.
StatusFlagsIndependentWitness ==
    /\ phase = "account" /\ last.op = "unmark_touch"
    /\ TheAccount.storage # NoStorage
    /\ ~is_touched(TheAccount)
    /\ is_selfdestructed(TheAccount) /\ is_created(TheAccount)
    /\ is_loaded_as_not_existing(TheAccount)

\* A flag that was not set has been unmarked: nothing changed.
StatusFlagsIndependentUnsetWitness ==
    /\ phase = "account" /\ last.op = "unmark_selfdestruct"
    /\ TheAccount.status = Touched


(***************************************************************************)
(* Creates that fail (under Spec).                                         *)
(***************************************************************************)
\* The observable journal `obs` with the nonce of account a one higher.
NonceBumped(obs, a) == [obs EXCEPT !.accounts[a].nonce = @ + 1]
\* This step ran create_inner to its end without running a frame.
CreateCameBackAtOnce == last'.returned = "create" /\ ~last'.ran
\* The creator in such a step: the sender, or the contract executing CREATE.
CreatorAtOnce == IF last'.op = "tx_create" THEN tx'.caller ELSE Top.address
\* This step entered the frame of a create.
EnteredCreate ==
    /\ last'.returned = None
    /\ Len(frames') = Len(frames) + 1
    /\ frames'[Len(frames')].kind = "create"
\* A create that ran its init code has come back failed.
CreateFailedAfterRun ==
    last.returned = "create" /\ last.ran /\ ExitClass(last.reason) # "Success"

\* C30: a create that passed the depth and balance checks and then failed,
\* at once or after its init code ran, leaves the observable journal
\* (balances, nonces, code, storage, self-destruct marks, logs) as it was
\* before the create but for the creator's nonce, which is one higher, and
\* leaves the derived address warm; the journal is as deep as before.  A
\* create rejected by the depth or balance check leaves the observable
\* journal, the creator's nonce included, as it was.
CreateRevertAtomicity ==
    /\ [](CreateFailedAfterRun =>
             /\ last.obs = last.snap
             /\ last.depth = last.entry_depth
             /\ subroutine.state[last.address].warm)
    /\ [][/\ EnteredCreate =>
                frames'[Len(frames')].snap =
                    NonceBumped(Observable(subroutine), frames'[Len(frames')].caller)
          /\ (CreateCameBackAtOnce /\ last'.address # None) =>
                /\ last'.obs = NonceBumped(Observable(subroutine), CreatorAtOnce)
                /\ last'.depth = depth(subroutine)
                /\ subroutine'.state[last'.address].warm
          /\ (CreateCameBackAtOnce /\ last'.address = None) =>
                /\ last'.obs = Observable(subroutine)
                /\ last'.depth = depth(subroutine)
         ]_vars

\* A create moved value to its new account and its init code ended in a
\* fatal error: the create came back with the value and the new account's
\* nonce undone and the address warm.
CreateRevertAtomicityWitness ==
    /\ CreateFailedAfterRun /\ last.changed
    /\ ExitClass(last.reason) = "Halt"
    /\ subroutine.state[last.address].warm
    /\ subroutine.state[last.address].balance = 0
    /\ subroutine.state[last.address].nonce = 0

\* A create came back at once with a collision.
CreateRevertAtomicityCollisionWitness ==
    /\ last.returned = "create" /\ ~last.ran /\ last.reason = "CreateCollision"
    /\ subroutine.state[last.address].warm

\* A create was rejected for lack of funds.
CreateRevertAtomicityRejectedWitness ==
    /\ last.returned = "create" /\ ~last.ran /\ last.reason = "OutOfFund"
    /\ last.address = None

\* The deployed code was over the size limit.
CreateRevertAtomicityLimitWitness ==
    CreateFailedAfterRun /\ last.reason = "CreateContractLimit"


(***************************************************************************)
(* The code hash of a created account.                                     *)
(***************************************************************************)
\* A create came back in the Success class: its address holds deployed code.
CreateSucceeded == last.returned = "create" /\ ExitClass(last.reason) = "Success"

\* C31: after a successful create (CREATE, CREATE2 or a create transaction)
\* the created account's code is the bytes the init code returned and its
\* code_hash is the keccak256 of those bytes, not of the init code; every
\* account's code_hash is the keccak256 of its code.
DeployedCodeHash ==
    /\ CreateSucceeded =>
          LET acc == subroutine.state[last.address]
          IN /\ acc.code = last.return_value
             /\ acc.code_hash = keccak256(last.return_value)
    /\ \A a \in Addr :
          subroutine.state[a].code_hash = keccak256(subroutine.state[a].code)


(***************************************************************************)
(* The handler (handler.rs): its configuration, the handlers of the four   *)
(* phases, the instruction table and the registers appended to it.         *)
(***************************************************************************)
HandlerSpecIds == {"BERLIN", "LONDON", "SHANGHAI"}
\* A register changes what it likes of the handler it is given.  Two are
\* tried: one replaces the instruction table and wraps the execution
\* handler, the other wraps the validation and the execution handler, so
\* that the order of the two shows in the execution handler.
HandleRegisters == {"R1", "R2"}
MaxRegisters == 3

HandlerCfg_new(spec_id) == [spec_id |-> spec_id]
\* ValidationHandler::new::<SPEC>() and the like: what was built for SPEC,
\* and the registers that have changed it since, in order.
BuiltFor(spec_id) == [spec |-> spec_id, registered |-> << >>]

\* Handler::mainnet::<SPEC>().
mainnet(spec_id) ==
    [cfg |-> HandlerCfg_new(spec_id),
     instruction_table |-> BuiltFor(spec_id),
     registers |-> << >>,
     validation |-> BuiltFor(spec_id),
     pre_execution |-> BuiltFor(spec_id),
     post_execution |-> BuiltFor(spec_id),
     execution |-> BuiltFor(spec_id)]
\* spec_to_generic!(spec_id, Self::mainnet::<SPEC>()).
mainnet_with_spec(spec_id) == mainnet(spec_id)

\* register.register(handler).
register(handler, r) ==
    IF r = "R1"
    THEN [handler EXCEPT !.instruction_table.registered = Append(@, r),
                         !.execution.registered = Append(@, r)]
    ELSE [handler EXCEPT !.validation.registered = Append(@, r),
                         !.execution.registered = Append(@, r)]

append_handle_register(handler, r) ==
    [register(handler, r) EXCEPT !.registers = Append(@, r)]

\* `for register in registers { handler.append_handle_register(register) }`
RECURSIVE append_all(_, _)
append_all(handler, registers) ==
    IF registers = << >> THEN handler
    ELSE append_all(append_handle_register(handler, Head(registers)), Tail(registers))

\* `handler.cfg = self.cfg()`: the configuration of the handler that is
\* replaced, spec id included, becomes that of the new one.
change_spec_id_cfg(self, spec_id) == self.cfg

change_spec_id(self, spec_id) ==
    IF self.cfg.spec_id = spec_id THEN self
    ELSE LET registers == self.registers
             handler == append_all(mainnet_with_spec(spec_id), registers)
         IN [handler EXCEPT !.cfg = change_spec_id_cfg(self, spec_id)]

\* The handler the caller holds; `spec` is the spec id it was last asked
\* for: at construction, then at each change_spec_id.
TheHandler == result.state
InitHandler ==
    /\ spec \in HandlerSpecIds
    /\ gas_price \in GasPrices
    /\ subroutine = SubRoutine_new
    /\ frames = << >>
    /\ phase = "handler"
    /\ tx = NoTx
    /\ result = [NoResult EXCEPT !.state = mainnet_with_spec(spec)]
    /\ last = NoEvent
    /\ nops = 0

HandlerStep(op, handler) ==
    /\ phase = "handler"
    /\ result' = [result EXCEPT !.state = handler]
    /\ last' = [NoEvent EXCEPT !.op = op]
    /\ UNCHANGED <<gas_price, subroutine, frames, phase, tx, nops>>

NextHandler ==
    \/ \E r \in HandleRegisters :
          /\ Len(TheHandler.registers) < MaxRegisters
          /\ HandlerStep("append_handle_register", append_handle_register(TheHandler, r))
          /\ UNCHANGED spec
    \/ \E spec_id \in HandlerSpecIds :
          /\ HandlerStep("change_spec_id", change_spec_id(TheHandler, spec_id))
          /\ spec' = spec_id

SpecHandler == InitHandler /\ [][NextHandler]_vars

\* The handlers and the instruction table are those built for spec_id with
\* the handler's registers applied in their order.
HandlersBuiltFor(handler, spec_id) ==
    LET built == append_all(mainnet_with_spec(spec_id), handler.registers)
    IN /\ handler.instruction_table = built.instruction_table
       /\ handler.validation = built.validation
       /\ handler.pre_execution = built.pre_execution
       /\ handler.post_execution = built.post_execution
       /\ handler.execution = built.execution

\* C32: after any sequence of change_spec_id calls, cfg().spec_id is the
\* spec id of the last call, and the validation, pre-execution, execution
\* and post-execution handlers and the instruction table are those built for
\* that spec id with the registers appended before re-applied in their
\* order.
SpecSwitchInStep ==
    /\ TheHandler.cfg.spec_id = spec
    /\ HandlersBuiltFor(TheHandler, spec)

\* What the code does instead: cfg().spec_id is never changed.
CfgSpecIdNeverChanges == [][TheHandler'.cfg = TheHandler.cfg]_vars
\* A spec switch with two registers appended: the handlers are rebuilt for
\* the spec id asked for, cfg().spec_id is not.
CfgSpecIdStale ==
    /\ last.op = "change_spec_id"
    /\ spec = "LONDON"
    /\ TheHandler.registers = <<"R2", "R1">>
    /\ TheHandler.execution = [spec |-> "LONDON", registered |-> <<"R2", "R1">>]
    /\ TheHandler.cfg.spec_id = "BERLIN"
\* A switch back to the spec id of construction: the call returns the
\* handler as it is, with the handlers of the spec id before.
HandlersStale ==
    /\ last.op = "change_spec_id"
    /\ spec = "BERLIN"
    /\ TheHandler.cfg.spec_id = "BERLIN"
    /\ TheHandler.validation.spec = "LONDON"


(***************************************************************************)
(* EVM::finalize and the sender: transactions under several gas prices,    *)
(* their top-level frame only.                                             *)
(***************************************************************************)
\* Gas prices: none, 1, and one at which the fee of any transaction is more
\* than the sender owns.
FinalizeGasPrices == {0, 1, 20}
\* Values: none, 1, more than the sender owns.
FinalizeValues == {0, 1, SenderBalance + 1}
InitFinalize ==
    /\ spec \in SpecIds
    /\ gas_price \in FinalizeGasPrices
    /\ subroutine = SubRoutine_new
    /\ frames = << >>
    /\ phase = "idle"
    /\ tx = NoTx
    /\ result = NoResult
    /\ last = NoEvent
    /\ nops = 0

NextFinalize ==
    \/ \E value \in FinalizeValues, address \in {"B", "P"} :
          \E pr \in PrecompileChoices(address) :
             EVM_call(FALSE, address, value, EmptyBytes, 200000, NoAccessList, pr)
    \/ \E value \in FinalizeValues, gas_limit \in {30000, 200000} :
          EVM_create(value, ContractCode, "Create", gas_limit, NoAccessList)
    \/ TxReturn
    \/ \E v \in {0, 1} : sstore_op(v)
    \/ \E target \in SelfdestructTargets : selfdestruct_op(target)
    \/ stop_op
    \/ \E data \in RevertData : revert_op(data)
    \/ halt_op

SpecFinalize == InitFinalize /\ [][NextFinalize]_vars

\* EVM::call or EVM::create got as far as EVM::finalize.
Finalized == phase = "done" /\ last.op # "tx_rejected"

\* C33: every executed transaction, a create rejected with OutOfFund, a zero
\* gas price and a sender who cannot pay the fee included, ends with the
\* sender in the state the journal's finalize gives: EVM::finalize does not
\* panic and a state diff is returned.
FinalizeFindsSender ==
    Finalized => /\ result # Panicked
                 /\ result.executed
                 /\ Sender \in result.state

\* With the fee paid, or nothing to pay, the sender is found.
FinalizeFindsSenderWhenFeePaid ==
    (Finalized /\ gas_price \in {0, 1}) => result.executed /\ Sender \in result.state
\* EVM::call increments the sender's nonce: the sender is found at any price.
FinalizeFindsSenderOfCall ==
    (Finalized /\ tx.kind = "call") => result.executed /\ Sender \in result.state
\* A create is rejected with OutOfFund and the fee is more than the sender
\* owns: nothing has touched the sender.
FinalizePanics ==
    /\ Finalized /\ tx.kind = "create" /\ last.reason = "OutOfFund"
    /\ gas_price = 20
    /\ ~subroutine.state[Sender].touched
    /\ result = Panicked
\* A create rejected with OutOfFund at gas price 0: the fee transfer of 0
\* touches the sender.
FinalizeZeroPrice ==
    /\ Finalized /\ tx.kind = "create" /\ last.reason = "OutOfFund"
    /\ gas_price = 0
    /\ Sender \in result.state


(***************************************************************************)
(* The refund applied and the refund counter.                              *)
(***************************************************************************)
\* What was taken off the gas used of the transaction just ended.
AppliedRefund == gas_consumed - result.gas_used

\* C34: on a successful transaction the amount subtracted from gas_used is
\* at most the refund counter of the top-level frame's meter (a signed
\* amount); with a counter of zero or less nothing is subtracted.
AppliedRefundWithinCounter ==
    TxSucceeded =>
        /\ AppliedRefund <= result.gas.refunded
        /\ result.gas.refunded <= 0 => AppliedRefund = 0

\* A successful transaction whose counter was applied in full.
AppliedRefundWithinCounterWitness ==
    /\ TxSucceeded
    /\ result.gas.refunded > 0
    /\ AppliedRefund = result.gas.refunded
\* One whose counter was cut to half the gas spent.
AppliedRefundCappedWitness ==
    /\ TxSucceeded
    /\ 0 < AppliedRefund /\ AppliedRefund < result.gas.refunded
\* One whose frame ran and left a counter of zero: nothing is taken off.
AppliedRefundZeroWitness ==
    /\ TxSucceeded /\ last.ran /\ nops > 0
    /\ result.gas.refunded = 0
    /\ result.gas_used = gas_consumed
\* The counter of the meter EVM::call / EVM::create get back is never
\* negative, although that of a frame in flight can be.
RefundCounterNotNegative == result.executed => result.gas.refunded >= 0
NegativeCounterInFlight == \E i \in 1..Len(frames) : frames[i].gas.refunded < 0


(***************************************************************************)
(* The depth at which calls and creates are refused.                       *)
(***************************************************************************)
\* A CALL* or CREATE* instruction of a frame got its answer in this step:
\* at once, or when the child it entered came back.
NestedAnswered == last.returned \in {"call", "create"} /\ ~last.top

\* C35: from a frame at a given journal depth, a CALL-family instruction and
\* a CREATE / CREATE2 instruction are refused with CallTooDeep under the
\* same condition on that depth, namely that it exceeds CALL_STACK_LIMIT.
SameDepthThreshold ==
    NestedAnswered =>
        (last.reason = "CallTooDeep" <=> last.entry_depth > CALL_STACK_LIMIT)

\* At the first journal depth above the limit a CREATE is refused ...
SameDepthThresholdWitness ==
    /\ NestedAnswered /\ last.returned = "create"
    /\ last.reason = "CallTooDeep"
    /\ last.entry_depth = CALL_STACK_LIMIT + 1
\* ... and so is a CALL;
SameDepthThresholdCallWitness ==
    /\ NestedAnswered /\ last.returned = "call"
    /\ last.reason = "CallTooDeep"
    /\ last.entry_depth = CALL_STACK_LIMIT + 1
\* at the limit itself a CREATE is let through ...
SameDepthThresholdCreateEnteredWitness ==
    /\ NestedAnswered /\ last.returned = "create" /\ last.ran
    /\ last.entry_depth = CALL_STACK_LIMIT
\* ... and so is a CALL.
SameDepthThresholdCallEnteredWitness ==
    /\ NestedAnswered /\ last.returned = "call" /\ last.ran
    /\ last.entry_depth = CALL_STACK_LIMIT


(***************************************************************************)
(* SELFDESTRUCT and its refund: contract B and the account a create        *)
(* transaction deploys destroy themselves, directly and through calls of   *)
(* B to itself; no other instruction records a refund here.                *)
(***************************************************************************)
SelfdestructCallInputs ==
    {CallIn(scheme, "B", 0, U64_MAX, NoPrecompile) :
        scheme \in {"Call", "CallCode", "DelegateCall", "StaticCall"}}

\* Gas limits: ample, and 1000 more than the intrinsic gas of a call, less
\* than SELFDESTRUCT costs.
NextSelfdestruct ==
    \/ \E static \in BOOLEAN, gas_limit \in {22000, 200000} :
          EVM_call(static, "B", 0, EmptyBytes, gas_limit, NoAccessList, NoPrecompile)
    \/ EVM_create(1, ContractCode, "Create", 200000, NoAccessList)
    \/ TxReturn
    \/ ChildReturn
    \/ \E target \in {"A", "B"} : selfdestruct_op(target)
    \/ \E c \in SelfdestructCallInputs : call_op(c.scheme, c.to, c.value, c.gas, c.pr)
    \/ stop_op
    \/ \E data \in RevertData : revert_op(data)

SpecSelfdestruct == Init /\ [][NextSelfdestruct]_vars

\* The refunds recorded and not dropped since: those in the meters of the
\* frames in flight, then in the meter of a transaction that succeeded.
RECURSIVE FramesRefunded(_)
FramesRefunded(fs) ==
    IF fs = << >> THEN 0 ELSE Head(fs).gas.refunded + FramesRefunded(Tail(fs))
RefundsStanding ==
    FramesRefunded(frames) + (IF TxSucceeded THEN result.gas.refunded ELSE 0)
DestroyedAccounts == {a \in Addr : subroutine.state[a].destroyed}

\* The refund is recorded only before London and only for an account the
\* host reports as not destroyed before; the refunds standing are at most
\* one per destroyed account, and none from London on.
RefundAtMostOnce ==
    /\ last.op = "selfdestruct" =>
          (last.sd.refund # 0 =>
              /\ ~enabled(spec, "LONDON")
              /\ ~last.sd.previously_destroyed
              /\ last.sd.refund = SELFDESTRUCT_REFUND)
    /\ RefundsStanding <= SELFDESTRUCT_REFUND * Cardinality(DestroyedAccounts)
    /\ enabled(spec, "LONDON") => RefundsStanding = 0

SelfdestructRefundFirstWitness ==
    /\ last.op = "selfdestruct" /\ ~last.sd.previously_destroyed
    /\ last.sd.refund = SELFDESTRUCT_REFUND
    /\ Top.exit = "SelfDestruct"
\* Two SELFDESTRUCTs of B under London: no refund stands.
SelfdestructRefundLondonWitness ==
    /\ last.op = "selfdestruct" /\ enabled(spec, "LONDON")
    /\ last.sd.previously_destroyed /\ RefundsStanding = 0
\* Two accounts destroyed, two refunds.
SelfdestructRefundTwoAccountsWitness ==
    /\ RefundsStanding = 2 * SELFDESTRUCT_REFUND
\* A frame without the gas for SELFDESTRUCT.
SelfdestructOutOfGasWitness ==
    /\ last.op = "selfdestruct" /\ ~last.sd.can_pay /\ Top.exit = "OutOfGas"
\* A static frame with the gas for SELFDESTRUCT.
SelfdestructInStaticFrame ==
    /\ last.op = "selfdestruct" /\ last.sd.can_pay /\ last.static
    /\ Top.exit = "StateChangeDuringStaticCall"


(***************************************************************************)
(* RETURNDATACOPY: one frame's memory and return-data buffer, as byte      *)
(* sequences.  usize is USIZE_MAX wide; operands are stack words and may   *)
(* exceed it.                                                              *)
(***************************************************************************)
UsizeBits == 6
USIZE_MAX == 2 ^ UsizeBits - 1
\* gas::verylowcopy_cost: VERYLOW plus COPY per word copied.
verylowcopy_cost(len) == 3 + 3 * ((len + 31) \div 32)

\* memory_resize!: the memory grows, in words of 32 bytes and filled with
\* zeros, to hold offset .. offset + len; the growth is paid for (3w +
\* w*w/512 for w words); no size above usize.
memory_resize(machine, offset, len) ==
    LET end == Min(offset + len, USIZE_MAX)
        new_size == ((end + 31) \div 32) * 32
        w == new_size \div 32
        w0 == Len(machine.memory) \div 32
        cost == (3 * w + (w * w) \div 512) - (3 * w0 + (w0 * w0) \div 512)
    IN IF new_size > USIZE_MAX THEN [ok |-> FALSE, machine |-> machine]
       ELSE IF new_size <= Len(machine.memory) THEN [ok |-> TRUE, machine |-> machine]
       ELSE IF ~can_record_cost(machine.gas, cost) THEN [ok |-> FALSE, machine |-> machine]
       ELSE [ok |-> TRUE,
             machine |-> [machine EXCEPT
                 !.gas = record_cost(@, cost),
                 !.memory = @ \o [i \in 1..(new_size - Len(@)) |-> 0]]]

\* Memory::set: the bytes are written from offset on.
memory_set(memory, offset, data) ==
    [i \in 1..Len(memory) |->
        IF i > offset /\ i <= offset + Len(data) THEN data[i - offset] ELSE memory[i]]

\* `if overflow || data_end > machine.return_data_buffer.len()`.
\* (Variant: the overflow flag is not looked at.)
returndata_out_of_offset_no_overflow(data_end, overflow, buffer_len) ==
    data_end > buffer_len
returndata_out_of_offset(data_end, overflow, buffer_len) ==
    overflow \/ data_end > buffer_len

\* The instruction ended with ret.
Ret(machine, ret) == [machine EXCEPT !.ret = ret]

returndatacopy(machine, memory_offset, offset, len) ==
    LET m1 == [machine EXCEPT !.gas = record_cost(@, verylowcopy_cost(len))]
        data_offset == Min(offset, USIZE_MAX)
        r == memory_resize(m1, memory_offset, len)
        data_end == (data_offset + len) % (USIZE_MAX + 1)
        overflow == data_offset + len > USIZE_MAX
        buffer == machine.return_data_buffer
    IN IF ~can_record_cost(machine.gas, verylowcopy_cost(len))
       THEN Ret(machine, "OutOfGas")
       ELSE IF len > USIZE_MAX THEN Ret(m1, "OutOfGas")
       ELSE IF memory_offset > USIZE_MAX THEN Ret(m1, "OutOfGas")
       ELSE IF ~r.ok THEN Ret(m1, "OutOfGas")
       ELSE IF returndata_out_of_offset(data_end, overflow, Len(buffer))
       THEN Ret(r.machine, "OutOfOffset")
       ELSE Ret([r.machine EXCEPT !.memory =
                    memory_set(@, memory_offset,
                               SubSeq(buffer, data_offset + 1, data_end))],
                "Continue")

\* `machine.return_data_buffer = Bytes::new()` at the start of CALL* and
\* CREATE*, `machine.return_data_buffer = return_data` once the host is
\* back; the instructions are given empty input and output ranges, so that
\* the memory stays as it is.
return_data_set(machine, return_data) ==
    Ret([[machine EXCEPT !.return_data_buffer = << >>]
            EXCEPT !.return_data_buffer = return_data], "Continue")

\* The outputs the host hands back, the operands tried, and the memory and
\* gas (too little for the copy, ample) the frame starts with.
ReturnDataBuffers == {<< >>, <<11>>, <<11, 12>>, <<11, 12, 13>>}
CopyWords == {0, 1, 2, 3, USIZE_MAX - 1, USIZE_MAX, USIZE_MAX + 1}
DestWords == {0, 2, 31, USIZE_MAX + 1}
\* The frame of this part; `tx` holds the operands the instruction just
\* executed popped, last.output the output of the frame's most recent CALL*
\* or CREATE*.
TheMachine == result.state
InitReturnData ==
    /\ spec \in SpecIds
    /\ gas_price \in GasPrices
    /\ subroutine = SubRoutine_new
    /\ frames = << >>
    /\ phase = "machine"
    /\ tx = NoTx
    /\ \E gas_limit \in {2, 100}, memory \in {<< >>, [i \in 1..32 |-> 9]} :
          result = [NoResult EXCEPT !.state =
                       [memory |-> memory, return_data_buffer |-> << >>,
                        gas |-> Gas_new(gas_limit), ret |-> "Continue"]]
    /\ last = [NoEvent EXCEPT !.output = << >>]
    /\ nops = 0

MachineStep(op, machine, operands, output) ==
    /\ phase = "machine"
    /\ TheMachine.ret = "Continue"
    /\ nops < MaxOps
    /\ result' = [result EXCEPT !.state = machine]
    /\ tx' = operands
    /\ last' = [NoEvent EXCEPT !.op = op, !.output = output]
    /\ nops' = nops + 1
    /\ UNCHANGED <<spec, gas_price, subroutine, frames, phase>>

NextReturnData ==
    \/ \E return_data \in ReturnDataBuffers :
          MachineStep("call", return_data_set(TheMachine, return_data), NoTx,
                      return_data)
    \/ \E return_data \in ReturnDataBuffers :
          MachineStep("create", return_data_set(TheMachine, return_data), NoTx,
                      return_data)
    \/ \E memory_offset \in DestWords, offset \in CopyWords, len \in CopyWords :
          MachineStep("returndatacopy",
                      returndatacopy(TheMachine, memory_offset, offset, len),
                      [memory_offset |-> memory_offset, offset |-> offset,
                       len |-> len],
                      last.output)

SpecReturnData == InitReturnData /\ [][NextReturnData]_vars


\* What a RETURNDATACOPY step is measured against: the operands as the
\* stack held them, in unbounded arithmetic.
CopyRange(buffer, a) == SubSeq(buffer, a.offset + 1, a.offset + a.len)
CopyOutOfBounds(buffer, a) == a.offset + a.len > Len(buffer)
\* The memory afterwards is the memory before, grown with zeros.
MemoryKept(before, after) ==
    /\ Len(after) >= Len(before)
    /\ \A i \in 1..Len(after) : after[i] = IF i <= Len(before) THEN before[i] ELSE 0
\* The memory afterwards holds data from memory_offset on and is the
\* memory before, grown with zeros, everywhere else.
MemoryCopied(before, after, memory_offset, data) ==
    /\ Len(after) >= Len(before)
    /\ Len(after) >= memory_offset + Len(data)
    /\ \A i \in 1..Len(after) :
          after[i] = IF i > memory_offset /\ i <= memory_offset + Len(data)
                     THEN data[i - memory_offset]
                     ELSE IF i <= Len(before) THEN before[i] ELSE 0
\* The gas of the copy and of the memory it needs, when both operands of
\* the destination range fit usize and the range lies in memory that can
\* exist.
CopyPayable(machine, a) ==
    LET w0 == Len(machine.memory) \div 32
        needed == (a.memory_offset + a.len + 31) \div 32
        words == IF needed > w0 THEN needed ELSE w0
    IN /\ a.len <= USIZE_MAX
       /\ a.memory_offset <= USIZE_MAX
       /\ 32 * ((a.memory_offset + a.len + 31) \div 32) <= USIZE_MAX
       /\ machine.gas.limit - machine.gas.all_used >=
             verylowcopy_cost(a.len)
             + (3 * words + (words * words) \div 512)
             - (3 * w0 + (w0 * w0) \div 512)

\* C37 as stated: for every offset, length and buffer, RETURNDATACOPY fails
\* with OutOfOffset and writes nothing when offset + length exceeds the
\* buffer's length, and otherwise copies exactly that range of the buffer to
\* the destination; the buffer is the output of the frame's most recent
\* CALL* or CREATE*, empty before the first.
ReturnDataCopyAsStated ==
    [][last'.op = "returndatacopy" =>
          LET buffer == TheMachine.return_data_buffer
              after == TheMachine'
          IN /\ buffer = last'.output
             /\ CopyOutOfBounds(buffer, tx') =>
                   /\ after.ret = "OutOfOffset"
                   /\ MemoryKept(TheMachine.memory, after.memory)
             /\ ~CopyOutOfBounds(buffer, tx') =>
                   /\ after.ret = "Continue"
                   /\ MemoryCopied(TheMachine.memory, after.memory,
                                   tx'.memory_offset, CopyRange(buffer, tx'))]_vars

\* C37, amended: the copy's gas and the memory of the destination range are
\* charged first.  RETURNDATACOPY fails with OutOfGas, nothing of the buffer
\* written, exactly when they cannot be paid (a length or a destination
\* offset that does not fit usize cannot); when they can, it fails with
\* OutOfOffset and writes nothing if offset + length exceeds the buffer's
\* length (a length of 0 with the offset beyond the end included), and
\* otherwise copies exactly buffer[offset..offset+length] to the
\* destination.  The buffer is the output of the frame's most recent CALL*
\* or CREATE*, empty before the first.
ReturnDataCopyBounds ==
    [][last'.op = "returndatacopy" =>
          LET buffer == TheMachine.return_data_buffer
              after == TheMachine'
          IN /\ buffer = last'.output
             /\ after.return_data_buffer = buffer
             /\ after.ret = "OutOfGas" <=> ~CopyPayable(TheMachine, tx')
             /\ after.ret = "OutOfGas" =>
                   MemoryKept(TheMachine.memory, after.memory)
             /\ (after.ret # "OutOfGas" /\ CopyOutOfBounds(buffer, tx')) =>
                   /\ after.ret = "OutOfOffset"
                   /\ MemoryKept(TheMachine.memory, after.memory)
             /\ (after.ret # "OutOfGas" /\ ~CopyOutOfBounds(buffer, tx')) =>
                   /\ after.ret = "Continue"
                   /\ MemoryCopied(TheMachine.memory, after.memory,
                                   tx'.memory_offset, CopyRange(buffer, tx'))]_vars

\* A RETURNDATACOPY that was just executed.
Copied == phase = "machine" /\ last.op = "returndatacopy"
\* All three bytes of a call's output were copied into memory that held
\* other bytes.
ReturnDataCopyBoundsWitness ==
    /\ Copied
    /\ TheMachine.ret = "Continue"
    /\ tx.len = 3 /\ tx.offset = 0 /\ tx.memory_offset = 2
    /\ last.output = <<11, 12, 13>>
    /\ SubSeq(TheMachine.memory, 1, 6) = <<9, 9, 11, 12, 13, 9>>
\* Nothing copied from the very end of the buffer: in range.
ReturnDataCopyEmptyAtEndWitness ==
    /\ Copied /\ TheMachine.ret = "Continue"
    /\ tx.len = 0 /\ tx.offset = 3 /\ Len(TheMachine.return_data_buffer) = 3
\* A length of 0 with the offset beyond the end.
ReturnDataCopyZeroLengthBeyondWitness ==
    /\ Copied /\ TheMachine.ret = "OutOfOffset"
    /\ tx.len = 0 /\ tx.offset = 3 /\ Len(TheMachine.return_data_buffer) = 2
\* offset + length overflows usize.
ReturnDataCopyOverflowWitness ==
    /\ Copied /\ TheMachine.ret = "OutOfOffset"
    /\ tx.len = 1 /\ tx.offset = USIZE_MAX
\* An offset that does not fit usize.
ReturnDataCopyOffsetSaturatedWitness ==
    /\ Copied /\ TheMachine.ret = "OutOfOffset"
    /\ tx.len = 0 /\ tx.offset = USIZE_MAX + 1
\* Before the first call the buffer is empty: one byte is out of range.
ReturnDataCopyBeforeFirstCallWitness ==
    /\ Copied /\ TheMachine.ret = "OutOfOffset" /\ nops = 1
    /\ tx.len = 1 /\ tx.offset = 0
\* A length that does not fit usize, in a frame with gas for the copy.
ReturnDataCopyLengthOutOfGas ==
    /\ Copied /\ TheMachine.ret = "OutOfGas"
    /\ tx.len = USIZE_MAX + 1
    /\ TheMachine.gas.limit = 100
\* Out of range, in a frame without the gas of the copy.
ReturnDataCopyNoGas ==
    /\ Copied /\ TheMachine.ret = "OutOfGas"
    /\ tx.len = 1 /\ tx.offset = 3 /\ tx.memory_offset = 0
    /\ TheMachine.gas.limit = 2
\* The second of two calls is the one whose output is read.
ReturnDataCopySecondCallWitness ==
    /\ Copied /\ TheMachine.ret = "Continue" /\ nops = 3
    /\ tx.len = 1 /\ tx.offset = 0 /\ tx.memory_offset = 0
    /\ TheMachine.memory[1] = 11 /\ Len(TheMachine.return_data_buffer) = 1

=============================================================================
